---------------------------- MODULE Spec2Model ----------------------------
(***************************************************************************)
(* Phase 2 of the avatar pipeline (tools/run_pipeline.py,                  *)
(* continue_with_audio) together with the completion poller it calls       *)
(* (tools/heygen_download_video.py, wait_for_video / wait_and_download).   *)
(*                                                                         *)
(* Time is counted in whole seconds.  A status query takes between 0 and   *)
(* MaxQueryDur seconds, a sleep is taken one second at a time, and the     *)
(* remote calls before the poller take between 0 and MaxStepDur seconds.   *)
(***************************************************************************)
EXTENDS Integers, Sequences, FiniteSets, TLC

(* ------------------------------ bounds --------------------------------- *)
\* max_wait handed to wait_for_video (600 in the code, scaled down here)
MaxWait == 20
\* longest time one status query may take before it answers or fails
MaxQueryDur == 1
\* longest time upload_audio / create_video may take
MaxStepDur == 1
\* number of invocations of continue_with_audio that are followed
MaxInvocations == 2
\* cap on the status queries of one wait_for_video call; the timeout keeps
\* the code below it (second conjunct of C7_Terminates)
MaxQueries == 6

(* ------------------------- program constants --------------------------- *)
\* wait_and_download(video_id, output_path, poll_interval = 10, ...)
poll_interval == 10
\* time.sleep(5) after a network failure of the status query
backoff == 5
\* max_retries = 3
max_retries == 3
\* max_wait of the call made by continue_with_audio
max_wait == MaxWait

(* ------------------------------ values --------------------------------- *)
Absent == "<absent>"
None == "None"
AssetId == "asset"
VideoUrl == "https://video"
VideoPath == "output/video.mp4"
DriveLink == "https://drive/link"
SheetLink == "https://sheet/link"
YouTubeUrl == "https://youtube/watch"

NoException == [type |-> "none", msg |-> "", detail |-> ""]
Exc(t, m, d) == [type |-> t, msg |-> m, detail |-> d]

NoResult == [video_path |-> None, selected_option |-> None, drive_link |-> None,
             sheet_link |-> None, youtube_url |-> None, duration |-> -1]

NoUpload == [asset_id |-> Absent]

\* no request of upload_audio has been answered
NoCode == -1
NoUploadResponse == [status_code |-> 0, code |-> NoCode]

\* the answers of the vendor to the upload: a status and the "code" member
\* of the body
UploadResponses ==
    {[status_code |-> 200, code |-> c] : c \in {100, 400, NoCode}}
    \cup {[status_code |-> 500, code |-> NoCode]}

\* video_id before create_video returned one (job ids count from 1)
NoVideoId == 0

NoStatus == [status |-> Absent, video_url |-> Absent, error |-> Absent]

\* the payloads a successful status query can carry in its "data" field
StatusPayloads ==
    {[status |-> s, video_url |-> Absent, error |-> Absent] :
        s \in {"pending", "processing", "waiting", "rendering", Absent}}
    \cup {[status |-> "completed", video_url |-> u, error |-> Absent] :
        u \in {VideoUrl, Absent, None}}
    \cup {[status |-> "failed", video_url |-> Absent, error |-> e] :
        e \in {"render crashed", Absent}}

\* the ways one call of check_video_status can end
QueryOutcomes ==
    {[kind |-> "ok", data |-> p] : p \in StatusPayloads}
    \cup {[kind |-> k, data |-> NoStatus] : k \in {"Timeout", "RequestException", "http_error"}}

NetworkFailures == {"Timeout", "RequestException"}

\* what a query outcome is, as seen from outside wait_for_video
OutcomeClass(out) ==
    CASE out.kind \in NetworkFailures -> "network"
      [] out.kind = "http_error" -> "http_error"
      [] out.data.status = "completed" -> "completed"
      [] out.data.status = "failed" -> "failed"
      [] OTHER -> "nonterminal"

VARIABLES
    pc,              \* position of the running invocation
    invocations,     \* invocations of continue_with_audio started so far
    HEYGEN_API_KEY,  \* whether the credential is configured
    audio_exists,    \* whether the audio file of this invocation exists
    skip_cloud,      \* parameter of continue_with_audio
    upload_youtube,  \* parameter of continue_with_audio
    now,             \* time.time()
    start_time,      \* start_time of continue_with_audio
    total_steps,     \* total_steps of continue_with_audio
    current_step,    \* last step number announced
    steps,           \* the operations attempted by this invocation, in order
    upload_result,   \* upload_result of continue_with_audio
    upload_response, \* the answer to the request of upload_audio, NoUploadResponse if none
    create_calls,    \* calls of create_video made by this invocation
    video_id,        \* job handle of this invocation
    jobs,            \* render jobs created at the vendor, all invocations
    wfv_start,       \* start_time of wait_for_video
    retry_count,     \* retry_count of wait_for_video
    status_data,     \* status_data of wait_for_video
    issued_at,       \* elapsed computed by the loop iteration that queried
    sleep_left,      \* seconds left of the time.sleep in progress
    history,         \* the status queries answered so far, in order
    queries,         \* status queries issued by this invocation
    poll_sleeps,     \* time.sleep(poll_interval) calls made
    backoff_sleeps,  \* time.sleep(5) calls made
    downloads,       \* download requests sent by this invocation
    download_status, \* status of the answer to the download request, 0 if none
    video_file,      \* whether the video file was written by this invocation
    pub_failed,      \* the publication steps that raised in this invocation
    result,          \* the result dictionary of continue_with_audio
    raised           \* the exception raised to the caller

\* the audio file name and what continue_with_audio derives from it
VARIABLES
    name_pc,         \* position of the derivation
    given_stem,      \* stem of the path given on the command line
    variant,         \* the Phase 1 variant whose file is passed on, or None
    audio_stem,      \* audio_stem of continue_with_audio
    base_name,       \* base_name of continue_with_audio
    selected_option  \* selected_option of continue_with_audio

\* the markup helpers of elevenlabs_tts.py applied to a text
VARIABLES
    tag_pc,          \* position of the application
    tag_text,        \* the text given
    tag_found,       \* has_audio_tags(text)
    tag_stripped,    \* strip_audio_tags(text)
    tag_found_after  \* has_audio_tags(strip_audio_tags(text))

\* Phase 1 (generate_audio_only) and the synthesis adapter it calls
VARIABLES
    mode,                 \* "audio_only", "full" or "continue"
    ELEVENLABS_API_KEY,   \* whether the credential is configured
    ELEVENLABS_VOICE_ID,  \* whether a voice is configured
    DEFAULT_MODEL,        \* os.getenv("ELEVENLABS_MODEL", "eleven_v3")
    script_file,          \* the content of the script file
    script_text,          \* script_text of generate_audio_only
    tts_option,           \* the variant text_to_speech is called for
    tts_text,             \* text of text_to_speech
    tts_model,            \* model of text_to_speech
    contains_tags,        \* contains_tags of text_to_speech
    response,             \* response of text_to_speech
    requests,             \* the vendor requests sent by Phase 1, in order
    tmp_files,            \* audio files written by text_to_speech
    out_files,            \* audio files copied to the output folder
    audio_results,        \* what text_to_speech_dual returned
    audio_result          \* what generate_audio_only returned

\* create_video (heygen_create_video.py) called on its own
VARIABLES
    cv_pc,            \* position of the call
    HEYGEN_AVATAR_ID, \* the avatar of the environment, None when not set
    cv_avatar_id,     \* the avatar_id argument of the call
    cv_response,      \* the answer of the vendor to the render request
    cv_sent,          \* render requests sent by the call
    cv_result,        \* the video_id the call returned
    cv_raised         \* the exception the call raised

\* upload_video (youtube_upload.py) called on its own
VARIABLES
    yt_pc,            \* position of the call
    yt_exists,        \* whether the video file exists
    yt_chunks_left,   \* chunks of the file not yet accepted
    yt_retry_count,   \* retry_count of the upload loop
    yt_attempts,      \* calls of request.next_chunk()
    yt_last,          \* how the last next_chunk() ended
    yt_sleeps,        \* the arguments of time.sleep, in order
    yt_response,      \* the response of the completed upload
    yt_raised         \* the exception the call raised

\* main (run_pipeline.py), the command-line entry point
VARIABLES
    cli_pc,              \* position of main
    exit_code,           \* the exit code of the process, NoExit while it runs
    args_continue_audio, \* whether --continue AUDIO_FILE was given
    args_audio_only,     \* whether --audio-only was given
    args_script,         \* whether the script argument was given
    script_exists        \* whether the script file exists

\* log_video_generation (google_sheets_logger.py) called on its own
VARIABLES
    sh_pc,        \* position of the call, "idle" between calls
    SHEET_ID,     \* the module global, NoSheet when not configured
    env_exists,   \* whether the .env file exists
    env_sheet_id, \* GOOGLE_SHEET_ID in the .env file
    sheets,       \* the spreadsheets that exist at the vendor
    with_headers, \* those that have the header row
    sh_calls,     \* calls of log_video_generation so far
    sh_verify,    \* how the verification of SHEET_ID ended in the last call
    sh_sheet_id,  \* sheet_id of the call, from get_or_create_sheet
    sh_rows,      \* the sheet of every row appended, in order
    sh_raised     \* the exception the last call raised

\* the web front-end (app.py): st.session_state and the widgets of the page
VARIABLES
    APP_PASSWORD,        \* whether st.secrets holds APP_PASSWORD
    authenticated,       \* st.session_state.authenticated
    phase,               \* st.session_state.phase
    session_script_text, \* st.session_state.script_text
    session_script_name, \* st.session_state.script_name
    audio_a_path,        \* st.session_state.audio_a_path
    audio_b_path,        \* st.session_state.audio_b_path
    selected_audio,      \* st.session_state.selected_audio
    video_path,          \* st.session_state.video_path
    uploaded_file,       \* what the file uploader holds, NoFile if nothing
    page_error           \* the st.error the last run of the script showed

phase2Vars == <<pc, invocations, HEYGEN_API_KEY, audio_exists, skip_cloud, upload_youtube,
          now, start_time, total_steps, current_step, steps, upload_result, upload_response, create_calls,
          video_id, jobs, wfv_start, retry_count, status_data, issued_at, sleep_left,
          history, queries, poll_sleeps, backoff_sleeps, downloads, download_status, video_file,
          pub_failed, result, raised>>

nameVars == <<name_pc, given_stem, variant, audio_stem, base_name, selected_option>>

tagVars == <<tag_pc, tag_text, tag_found, tag_stripped, tag_found_after>>

phase1Vars == <<mode, ELEVENLABS_API_KEY, ELEVENLABS_VOICE_ID, DEFAULT_MODEL,
                script_file, script_text, tts_option, tts_text, tts_model,
                contains_tags, response, requests, tmp_files, out_files,
                audio_results, audio_result>>

createVars == <<cv_pc, HEYGEN_AVATAR_ID, cv_avatar_id, cv_response, cv_sent, cv_result, cv_raised>>

ytVars == <<yt_pc, yt_exists, yt_chunks_left, yt_retry_count, yt_attempts, yt_last,
           yt_sleeps, yt_response, yt_raised>>

cliVars == <<cli_pc, exit_code, args_continue_audio, args_audio_only, args_script,
            script_exists>>

sheetVars == <<sh_pc, SHEET_ID, env_exists, env_sheet_id, sheets, with_headers, sh_calls,
              sh_verify, sh_sheet_id, sh_rows, sh_raised>>

appVars == <<APP_PASSWORD, authenticated, phase, session_script_text, session_script_name,
            audio_a_path, audio_b_path, selected_audio, video_path, uploaded_file,
            page_error>>

\* the tools called on their own, and the web front-end
toolVars == <<createVars, ytVars, cliVars, sheetVars, appVars>>

vars == <<phase2Vars, nameVars, tagVars, phase1Vars, toolVars>>

\* what continue_with_audio and the poller leave alone
notPhase2 == <<nameVars, tagVars, phase1Vars, toolVars>>

pollerVars == <<wfv_start, retry_count, status_data, issued_at, sleep_left, history,
                queries, poll_sleeps, backoff_sleeps>>
paramVars == <<HEYGEN_API_KEY, audio_exists, skip_cloud, upload_youtube>>
callVars == <<invocations, start_time, total_steps, upload_result, upload_response, create_calls,
              video_id, jobs>>

(* ------------------------ pieces of the code --------------------------- *)
\* variant: the timeout is noticed one poll interval late
TimedOut_OneIntervalLate(elapsed) == elapsed > max_wait + poll_interval

\* variant: the timeout check compares with >= instead of >
TimedOut_AtMaxWait(elapsed) == elapsed >= max_wait

\* variant: the timeout check is missing
TimedOut_Never(elapsed) == FALSE

\* if elapsed > max_wait: raise TimeoutError
TimedOut(elapsed) == elapsed > max_wait

\* variant: a successful query leaves the retry counter as it is
RetryCountOnSuccess_Kept(rc) == rc

\* retry_count = 0  # Reset retry count on success
RetryCountOnSuccess(rc) == 0

\* variant: the retry limit is compared with > instead of >=
RetriesExhausted_OffByOne(rc) == rc > max_retries

\* if retry_count >= max_retries: raise
RetriesExhausted(rc) == rc >= max_retries

\* variant: "waiting" is taken for the end of the render
StatusBranch_WaitingReturns(status) ==
    CASE status \in {"completed", "waiting"} -> "return"
      [] status = "failed" -> "raise"
      [] OTHER -> "sleep"

\* variant: a status outside the known ones is an error
StatusBranch_UnknownRaises(status) ==
    CASE status = "completed" -> "return"
      [] status \in {"pending", "processing", "waiting"} -> "sleep"
      [] OTHER -> "raise"

\* the if/elif chain on status: what wait_for_video does with a status
StatusBranch(status) ==
    CASE status = "completed" -> "return"
      [] status = "failed" -> "raise"
      [] status \in {"pending", "processing", "waiting"} -> "sleep"
      [] OTHER -> "sleep"

\* variant: the retry branch sleeps poll_interval as well
SleepSeconds_PollIntervalOnly(kind) == poll_interval

\* the argument of the time.sleep that follows a query
SleepSeconds(kind) == IF kind = "backoff_sleep" THEN backoff ELSE poll_interval

\* variant: the vendor's reason is dropped from the exception
FailureReason_Dropped(data) == "Unknown error"

\* error = status_data.get("error", "Unknown error")
FailureReason(data) == IF data.error = Absent THEN "Unknown error" ELSE data.error

\* total_steps = 3; += 3 if not skip_cloud; += 1 if upload_youtube
TotalSteps(sc, yt) == 3 + (IF ~sc THEN 3 ELSE 0) + (IF yt THEN 1 ELSE 0)

\* variant: a failing required step is swallowed and the next step runs
RequiredNext_Swallow(next, ok) == next

\* variant: the render job creation is skipped
RequiredNext_SkipsCreate(next, ok) ==
    IF ok THEN (IF next = "create" THEN "wait_start" ELSE next) ELSE "raised"

\* the required steps are called without any try/except: the next step runs
\* only when the call returned, an exception leaves continue_with_audio
RequiredNext(next, ok) == IF ok THEN next ELSE "raised"

\* if upload_youtube: ... (what follows the cloud block)
AfterCloud(yt) == IF yt THEN "youtube" ELSE "returned"

\* the statuses the download request can be answered with
DownloadStatuses == {200, 404, 500}

\* variant: the body is written whatever the status
DownloadAccepted_AnyStatus(code) == TRUE

\* if response.status_code != 200: raise Exception(f"Download error: ...")
DownloadAccepted(code) == code = 200

\* the status as it appears in the message of the exception
StatusText(code) ==
    CASE code = 404 -> "404"
      [] code = 500 -> "500"
      [] OTHER -> "200"

\* variant: skip_cloud skips the YouTube block as well
AfterDownload_SkipCloudSkipsAll(sc, yt) == IF ~sc THEN "drive" ELSE "returned"

\* if not skip_cloud: ... (what follows the result dictionary)
AfterDownload(sc, yt) == IF ~sc THEN "drive" ELSE AfterCloud(yt)

\* variant: the notification is sent before the log append
NextInCloudBlock_EmailBeforeLog(step, yt) ==
    CASE step = "upload_to_drive" -> "email"
      [] step = "send_video_notification" -> "sheets"
      [] step = "log_video_generation" -> AfterCloud(yt)

\* the statements of the cloud try block in their order: the storage upload,
\* the log append, the notification, then what follows the block
NextInCloudBlock(step, yt) ==
    CASE step = "upload_to_drive" -> "sheets"
      [] step = "log_video_generation" -> "email"
      [] step = "send_video_notification" -> AfterCloud(yt)

\* variant: the cloud block has no except clause
OnCloudError_Propagates(yt) == "raised"

\* variant: a failure of the cloud block ends the publication
OnCloudError_SkipsYouTube(yt) == "returned"

\* except Exception as cloud_error: warning only, then on to the YouTube block
OnCloudError(yt) == AfterCloud(yt)

\* except Exception as yt_error: warning only, then the result is returned
OnYouTubeError == "returned"

\* variant: the link returned by a publication step is not stored
RecordLink_Dropped(res, field, link) == res

\* result['drive_link'] = drive_result['shareable_link'], and the same for
\* sheet_link and youtube_url: stored once the call has returned
RecordLink(res, field, link) == [res EXCEPT ![field] = link]

\* variant: the job of an earlier invocation is reused
NewJob_Reused(j) == IF j = 0 THEN 1 ELSE j

\* every accepted render request starts a job of its own at the vendor,
\* and video_id is the handle of that job
NewJob(j) == j + 1

\* an exception raised inside wait_and_download, as continue_with_audio sees it
Raise(e) == pc' = RequiredNext("build_result", FALSE) /\ raised' = e

(* ------------------- the audio file name (run_pipeline.py) -------------- *)
\* A stem is a sequence of pieces: a plain piece without underscore, and the
\* pieces "_audio", "_OptionA" and "_OptionB" the naming conventions are made
\* of.  "_audio_OptionA" is the piece "_audio" followed by "_OptionA".
MaxStemLen == 3

NamePieces == {"x", "_audio", "_OptionA", "_OptionB"}

Variants == {"OptionA", "OptionB"}

Stems == UNION {[1..n -> NamePieces] : n \in 1..MaxStemLen}

VariantPiece(v) == IF v = "OptionA" THEN "_OptionA" ELSE "_OptionB"

AudioMarker(v) == <<"_audio", VariantPiece(v)>>

\* f"{script_stem}_audio_OptionA.mp3" / f"{script_stem}_audio_OptionB.mp3"
OutputStem(stem, v) == stem \o AudioMarker(v)

\* marker in s
Contains(s, marker) ==
    \E i \in 1..Len(s) :
       /\ i + Len(marker) - 1 <= Len(s)
       /\ SubSeq(s, i, i + Len(marker) - 1) = marker

\* s.endswith(suffix)
EndsWith(s, suffix) ==
    /\ Len(suffix) <= Len(s)
    /\ SubSeq(s, Len(s) - Len(suffix) + 1, Len(s)) = suffix

\* s.replace(marker, ""): every occurrence, left to right, without overlap
RECURSIVE Remove(_, _)
Remove(s, marker) ==
    IF s = <<>> THEN <<>>
    ELSE IF Len(marker) <= Len(s) /\ SubSeq(s, 1, Len(marker)) = marker
            THEN Remove(SubSeq(s, Len(marker) + 1, Len(s)), marker)
            ELSE <<Head(s)>> \o Remove(Tail(s), marker)

\* s.rsplit("_", 1) of a stem whose last piece is "_OptionA" or "_OptionB":
\* the part before the last underscore, and the part after it
RSplit(s) ==
    <<SubSeq(s, 1, Len(s) - 1),
      IF s[Len(s)] = "_OptionA" THEN "OptionA" ELSE "OptionB">>

\* if "_audio_OptionA" in audio_stem or "_audio_OptionB" in audio_stem: ...
\* elif audio_stem.endswith("_OptionA") or audio_stem.endswith("_OptionB"): ...
\* else: base_name = audio_stem; selected_option = "Custom"
DerivedNames(stem) ==
    IF Contains(stem, AudioMarker("OptionA")) \/ Contains(stem, AudioMarker("OptionB"))
       THEN [base_name |-> Remove(Remove(stem, AudioMarker("OptionA")),
                                  AudioMarker("OptionB")),
             selected_option |-> IF Contains(stem, AudioMarker("OptionA"))
                                    THEN "OptionA" ELSE "OptionB"]
    ELSE IF EndsWith(stem, <<"_OptionA">>) \/ EndsWith(stem, <<"_OptionB">>)
       THEN [base_name |-> RSplit(stem)[1], selected_option |-> RSplit(stem)[2]]
    ELSE [base_name |-> stem, selected_option |-> "Custom"]

\* the audio files continue_with_audio is given when it is called on its own
GivenAudioStems == {<<"x", "_audio", "_OptionB">>}

(* --------------------- state of the parts not running ------------------ *)
\* option_a_path = parent / f"{stem}_OptionA.mp3", and the same for B
OptionPath(v) ==
    IF v = "OptionA" THEN ".tmp/audio/script_OptionA.mp3"
                     ELSE ".tmp/audio/script_OptionB.mp3"

\* audio_output_a = OUTPUT_DIR / f"{script_stem}_audio_OptionA.mp3", same for B
OutputPath(v) ==
    IF v = "OptionA" THEN "output/script_audio_OptionA.mp3"
                     ELSE "output/script_audio_OptionB.mp3"

NoResponse == [status_code |-> 0, text |-> ""]

NoAudioResults == [option_a |-> None, option_b |-> None]

NoAudioResult == [script_length |-> 0, audio_option_a |-> None, audio_option_b |-> None]

\* continue_with_audio is not running and has not run
Phase2Quiet ==
    /\ invocations = 0
    /\ audio_exists = TRUE
    /\ skip_cloud = TRUE
    /\ upload_youtube = FALSE
    /\ now = 0
    /\ start_time = 0
    /\ total_steps = 0
    /\ current_step = 0
    /\ steps = <<>>
    /\ upload_result = NoUpload
    /\ upload_response = NoUploadResponse
    /\ create_calls = 0
    /\ video_id = NoVideoId
    /\ jobs = 0
    /\ wfv_start = 0
    /\ retry_count = 0
    /\ status_data = NoStatus
    /\ issued_at = 0
    /\ sleep_left = 0
    /\ history = <<>>
    /\ queries = 0
    /\ poll_sleeps = 0
    /\ backoff_sleeps = 0
    /\ downloads = 0
    /\ download_status = 0
    /\ video_file = FALSE
    /\ pub_failed = {}
    /\ result = NoResult
    /\ raised = NoException

Phase2Idle ==
    /\ HEYGEN_API_KEY = TRUE
    /\ Phase2Quiet

NamesIdle ==
    /\ name_pc = "idle"
    /\ given_stem = <<>>
    /\ variant = None
    /\ audio_stem = <<>>
    /\ base_name = <<>>
    /\ selected_option = None

TagsIdle ==
    /\ tag_pc = "idle"
    /\ tag_text = <<>>
    /\ tag_found = FALSE
    /\ tag_stripped = <<>>
    /\ tag_found_after = FALSE

SynthesisIdle ==
    /\ script_text = <<>>
    /\ tts_option = None
    /\ tts_text = <<>>
    /\ tts_model = None
    /\ contains_tags = FALSE
    /\ response = NoResponse
    /\ requests = <<>>
    /\ tmp_files = {}
    /\ out_files = {}
    /\ audio_results = NoAudioResults
    /\ audio_result = NoAudioResult

Phase1Idle ==
    /\ mode = "continue"
    /\ ELEVENLABS_API_KEY = TRUE
    /\ ELEVENLABS_VOICE_ID = TRUE
    /\ DEFAULT_MODEL = "eleven_v3"
    /\ script_file = <<>>
    /\ SynthesisIdle

NoCreateResponse == [status_code |-> 0, json |-> FALSE, error |-> Absent,
                     data |-> "absent", video_id |-> Absent]

CreateIdle ==
    /\ cv_pc = "idle"
    /\ HEYGEN_AVATAR_ID = "env_avatar"
    /\ cv_avatar_id = None
    /\ cv_response = NoCreateResponse
    /\ cv_sent = 0
    /\ cv_result = None
    /\ cv_raised = NoException

NoChunk == [kind |-> "none", status |-> 0]

UploadIdle ==
    /\ yt_pc = "idle"
    /\ yt_exists = TRUE
    /\ yt_chunks_left = 0
    /\ yt_retry_count = 0
    /\ yt_attempts = 0
    /\ yt_last = NoChunk
    /\ yt_sleeps = <<>>
    /\ yt_response = None
    /\ yt_raised = NoException

NoExit == -1

CliIdle ==
    /\ cli_pc = "idle"
    /\ exit_code = NoExit
    /\ args_continue_audio = FALSE
    /\ args_audio_only = FALSE
    /\ args_script = FALSE
    /\ script_exists = FALSE

NoSheet == 0

SheetIdle ==
    /\ sh_pc = "idle"
    /\ SHEET_ID = NoSheet
    /\ env_exists = TRUE
    /\ env_sheet_id = NoSheet
    /\ sheets = {}
    /\ with_headers = {}
    /\ sh_calls = 0
    /\ sh_verify = "none"
    /\ sh_sheet_id = NoSheet
    /\ sh_rows = <<>>
    /\ sh_raised = NoException

\* nothing is uploaded
NoFile == [stem |-> None, text |-> None]

\* the session state as main() initialises it, before any widget was used
SessionFresh ==
    /\ phase = "upload"
    /\ session_script_text = None
    /\ session_script_name = None
    /\ audio_a_path = None
    /\ audio_b_path = None
    /\ selected_audio = None
    /\ video_path = None

AppIdle ==
    /\ APP_PASSWORD = FALSE
    /\ authenticated = FALSE
    /\ SessionFresh
    /\ uploaded_file = NoFile
    /\ page_error = "none"

ToolsIdle ==
    /\ CreateIdle
    /\ UploadIdle
    /\ CliIdle
    /\ SheetIdle
    /\ AppIdle

\* Phase 1 has run at some earlier time: its files are there for review
Phase1Reviewed ==
    /\ mode = "continue"
    /\ ELEVENLABS_API_KEY = TRUE
    /\ ELEVENLABS_VOICE_ID = TRUE
    /\ DEFAULT_MODEL = "eleven_v3"
    /\ script_file = <<>>
    /\ script_text = <<>>
    /\ tts_option = None
    /\ tts_text = <<>>
    /\ tts_model = None
    /\ contains_tags = FALSE
    /\ response = NoResponse
    /\ requests = <<>>
    /\ tmp_files = {OptionPath("OptionA"), OptionPath("OptionB")}
    /\ out_files = {OutputPath("OptionA"), OutputPath("OptionB")}
    /\ audio_results = NoAudioResults
    /\ audio_result = NoAudioResult

(* ------------------------------- Init ---------------------------------- *)
Init ==
    /\ pc = "idle"
    /\ invocations = 0
    /\ HEYGEN_API_KEY \in BOOLEAN
    /\ audio_exists = TRUE
    /\ skip_cloud = FALSE
    /\ upload_youtube = FALSE
    /\ now = 0
    /\ start_time = 0
    /\ total_steps = 0
    /\ current_step = 0
    /\ steps = <<>>
    /\ upload_result = NoUpload
    /\ upload_response = NoUploadResponse
    /\ create_calls = 0
    /\ video_id = NoVideoId
    /\ jobs = 0
    /\ wfv_start = 0
    /\ retry_count = 0
    /\ status_data = NoStatus
    /\ issued_at = 0
    /\ sleep_left = 0
    /\ history = <<>>
    /\ queries = 0
    /\ poll_sleeps = 0
    /\ backoff_sleeps = 0
    /\ downloads = 0
    /\ download_status = 0
    /\ video_file = FALSE
    /\ pub_failed = {}
    /\ result = NoResult
    /\ raised = NoException
    /\ NamesIdle
    /\ TagsIdle
    /\ Phase1Reviewed
    /\ ToolsIdle

(* ------------------------ continue_with_audio -------------------------- *)
\* A caller invokes continue_with_audio(audio_path, skip_cloud, upload_youtube);
\* start_time = time.time().  Every invocation is a call of its own: all its
\* locals start afresh, only the vendor's jobs outlive it.  The clock is read
\* relative to the entry of the invocation.
Invoke ==
    /\ pc \in {"idle", "returned", "raised"}
    /\ invocations < MaxInvocations
    /\ invocations' = invocations + 1
    /\ \E ex \in BOOLEAN, sc \in BOOLEAN, yt \in BOOLEAN :
          /\ audio_exists' = ex
          /\ skip_cloud' = sc
          /\ upload_youtube' = yt
    /\ now' = 0
    /\ start_time' = 0
    /\ pc' = "validate"
    /\ total_steps' = 0
    /\ current_step' = 0
    /\ steps' = <<>>
    /\ upload_result' = NoUpload
    /\ upload_response' = NoUploadResponse
    /\ create_calls' = 0
    /\ video_id' = NoVideoId
    /\ wfv_start' = 0
    /\ retry_count' = 0
    /\ status_data' = NoStatus
    /\ issued_at' = 0
    /\ sleep_left' = 0
    /\ history' = <<>>
    /\ queries' = 0
    /\ poll_sleeps' = 0
    /\ backoff_sleeps' = 0
    /\ downloads' = 0
    /\ download_status' = 0
    /\ video_file' = FALSE
    /\ pub_failed' = {}
    /\ result' = NoResult
    /\ raised' = NoException
    /\ \E stem \in GivenAudioStems : audio_stem' = stem
    /\ base_name' = <<>>
    /\ selected_option' = None
    /\ UNCHANGED <<HEYGEN_API_KEY, jobs>>
    /\ UNCHANGED <<name_pc, given_stem, variant, tagVars, phase1Vars, toolVars>>

\* if not audio_file.exists(): raise FileNotFoundError; then base_name and
\* selected_option are derived from the stem, then the step count
ValidateAudio ==
    /\ pc = "validate"
    /\ IF ~audio_exists
          THEN /\ pc' = "raised"
               /\ raised' = Exc("FileNotFoundError", "Audio file not found", "")
               /\ UNCHANGED <<total_steps, base_name, selected_option>>
          ELSE /\ pc' = "upload"
               /\ base_name' = DerivedNames(audio_stem).base_name
               /\ selected_option' = DerivedNames(audio_stem).selected_option
               /\ total_steps' = TotalSteps(skip_cloud, upload_youtube)
               /\ UNCHANGED raised
    /\ UNCHANGED <<invocations, paramVars, now, start_time, current_step, steps,
                   upload_result, upload_response, create_calls, video_id, jobs, pollerVars, downloads, download_status,
                   video_file, pub_failed, result>>
    /\ UNCHANGED <<name_pc, given_stem, variant, audio_stem, tagVars, phase1Vars, toolVars>>

\* variant: the "code" member of the body is not looked at
UploadOutcome_StatusOnly(resp) ==
    IF resp.status_code # 200 THEN "http_error" ELSE "ok"

\* if response.status_code != 200: raise; if result.get("code") != 100: raise
UploadOutcome(resp) ==
    IF resp.status_code # 200 THEN "http_error"
    ELSE IF resp.code # 100 THEN "code_error"
    ELSE "ok"

\* [STEP 1] upload_result = upload_audio(str(audio_file))
UploadAudio ==
    /\ pc = "upload"
    /\ steps' = Append(steps, "upload_audio")
    /\ current_step' = 1
    /\ IF ~HEYGEN_API_KEY
          THEN /\ pc' = RequiredNext("create", FALSE)
               /\ raised' = Exc("ValueError", "HEYGEN_API_KEY not found", "")
               /\ UNCHANGED <<now, upload_result, upload_response>>
          ELSE IF ~audio_exists
                  THEN /\ pc' = RequiredNext("create", FALSE)
                       /\ raised' = Exc("FileNotFoundError", "Audio file not found", "")
                       /\ UNCHANGED <<now, upload_result, upload_response>>
                  ELSE \E d \in 0..MaxStepDur, resp \in UploadResponses :
                         /\ now' = now + d
                         /\ upload_response' = resp
                         /\ pc' = RequiredNext("create", UploadOutcome(resp) = "ok")
                         /\ CASE UploadOutcome(resp) = "ok" ->
                                   /\ upload_result' = [asset_id |-> AssetId]
                                   /\ UNCHANGED raised
                              [] UploadOutcome(resp) = "http_error" ->
                                   /\ raised' = Exc("Exception", "HeyGen upload error", "")
                                   /\ UNCHANGED upload_result
                              [] UploadOutcome(resp) = "code_error" ->
                                   /\ raised' = Exc("Exception", "HeyGen upload failed", "")
                                   /\ UNCHANGED upload_result
    /\ UNCHANGED <<invocations, paramVars, start_time, total_steps, create_calls, video_id,
                   jobs, pollerVars, downloads, download_status, video_file, pub_failed, result>>
    /\ UNCHANGED notPhase2

\* [STEP 2] video_id = create_video(audio_asset_id, background_color)
CreateVideo ==
    /\ pc = "create"
    /\ steps' = Append(steps, "create_video")
    /\ current_step' = 2
    /\ create_calls' = create_calls + 1
    /\ IF ~HEYGEN_API_KEY
          THEN /\ pc' = RequiredNext("wait_start", FALSE)
               /\ raised' = Exc("ValueError", "HEYGEN_API_KEY not found", "")
               /\ UNCHANGED <<now, video_id, jobs>>
          ELSE \E d \in 0..MaxStepDur,
                  out \in {"ok", "no_avatar", "http_error", "error_field", "no_video_id"} :
                 /\ pc' = RequiredNext("wait_start", out = "ok")
                 /\ now' = IF out = "no_avatar" THEN now ELSE now + d
                 /\ CASE out = "ok" ->
                           /\ jobs' = NewJob(jobs)
                           /\ video_id' = NewJob(jobs)
                           /\ UNCHANGED raised
                      [] out = "no_avatar" ->
                           /\ raised' = Exc("ValueError", "Avatar ID not provided", "")
                           /\ UNCHANGED <<video_id, jobs>>
                      [] out = "http_error" ->
                           /\ raised' = Exc("Exception", "HeyGen video generation error", "")
                           /\ UNCHANGED <<video_id, jobs>>
                      [] out = "error_field" ->
                           /\ raised' = Exc("Exception", "HeyGen video generation failed", "")
                           /\ UNCHANGED <<video_id, jobs>>
                      [] out = "no_video_id" ->
                           /\ raised' = Exc("Exception", "No video_id returned", "")
                           /\ UNCHANGED <<video_id, jobs>>
    /\ UNCHANGED <<invocations, paramVars, start_time, total_steps, upload_result, upload_response,
                   pollerVars, downloads, download_status, video_file, pub_failed, result>>
    /\ UNCHANGED notPhase2

(* --------------------------- wait_for_video ---------------------------- *)
\* [STEP 3] wait_and_download -> wait_for_video: start_time = time.time(),
\* retry_count = 0
WaitStart ==
    /\ pc = "wait_start"
    /\ steps' = Append(steps, "wait_for_video")
    /\ current_step' = 3
    /\ wfv_start' = now
    /\ retry_count' = 0
    /\ pc' = "loop"
    /\ UNCHANGED <<callVars, paramVars, now, status_data, issued_at, sleep_left, history,
                   queries, poll_sleeps, backoff_sleeps, downloads, download_status, video_file,
                   pub_failed, result, raised>>
    /\ UNCHANGED notPhase2

\* top of the while loop: elapsed = time.time() - start_time; the timeout
\* check; otherwise check_video_status sends its request
LoopTop ==
    /\ pc = "loop"
    /\ LET elapsed == now - wfv_start IN
         IF TimedOut(elapsed)
            THEN /\ Raise(Exc("TimeoutError", "Video generation timed out", ""))
                 /\ UNCHANGED <<issued_at, queries>>
            ELSE IF ~HEYGEN_API_KEY
                    THEN /\ Raise(Exc("ValueError", "HEYGEN_API_KEY not found", ""))
                         /\ UNCHANGED <<issued_at, queries>>
                    ELSE /\ queries < MaxQueries
                         /\ pc' = "query"
                         /\ issued_at' = elapsed
                         /\ queries' = queries + 1
                         /\ UNCHANGED raised
    /\ UNCHANGED <<callVars, paramVars, now, current_step, steps, wfv_start, retry_count,
                   status_data, sleep_left, history, poll_sleeps, backoff_sleeps,
                   downloads, download_status, video_file, pub_failed, result>>
    /\ UNCHANGED notPhase2

\* variant: every failure of the status query is retried
Retried_AnyFailure(kind) == kind # "ok"

\* except requests.exceptions.Timeout / except requests.exceptions.RequestException:
\* the only failures of check_video_status the loop catches
Retried(kind) == kind \in NetworkFailures

\* the request of check_video_status ends, d seconds after it was sent, and
\* the rest of the loop body runs up to the sleep, the return or the raise
QueryRespond ==
    /\ pc = "query"
    /\ \E d \in 0..MaxQueryDur, out \in QueryOutcomes :
         /\ now' = now + d
         /\ history' = Append(history, [class |-> OutcomeClass(out),
                                        issued |-> issued_at,
                                        arrived |-> (now + d) - wfv_start])
         /\ CASE Retried(out.kind) ->
                   /\ retry_count' = retry_count + 1
                   /\ IF RetriesExhausted(retry_count + 1)
                         THEN /\ Raise(Exc(out.kind, "network failure", ""))
                              /\ UNCHANGED <<sleep_left, backoff_sleeps>>
                         ELSE /\ pc' = "backoff_sleep"
                              /\ sleep_left' = SleepSeconds("backoff_sleep")
                              /\ backoff_sleeps' = backoff_sleeps + 1
                              /\ UNCHANGED raised
                   /\ UNCHANGED <<status_data, poll_sleeps>>
              [] out.kind = "http_error" ->
                   /\ Raise(Exc("Exception", "HeyGen status check error", ""))
                   /\ UNCHANGED <<retry_count, status_data, sleep_left, poll_sleeps,
                                  backoff_sleeps>>
              [] out.kind = "ok" ->
                   /\ status_data' = out.data
                   /\ retry_count' = RetryCountOnSuccess(retry_count)
                   /\ CASE StatusBranch(out.data.status) = "return" ->
                             /\ pc' = "download"
                             /\ UNCHANGED <<raised, sleep_left, poll_sleeps>>
                        [] StatusBranch(out.data.status) = "raise" ->
                             /\ Raise(Exc("Exception", "Video generation failed",
                                          FailureReason(out.data)))
                             /\ UNCHANGED <<sleep_left, poll_sleeps>>
                        [] StatusBranch(out.data.status) = "sleep" ->
                             /\ pc' = "poll_sleep"
                             /\ sleep_left' = SleepSeconds("poll_sleep")
                             /\ poll_sleeps' = poll_sleeps + 1
                             /\ UNCHANGED raised
                   /\ UNCHANGED backoff_sleeps
    /\ UNCHANGED <<callVars, paramVars, current_step, steps, wfv_start, issued_at, queries,
                   downloads, download_status, video_file, pub_failed, result>>
    /\ UNCHANGED notPhase2

\* one second of the time.sleep in progress passes; a sleep always runs to its
\* end, and then the loop continues at its top
SleepTick ==
    /\ pc \in {"poll_sleep", "backoff_sleep"}
    /\ sleep_left > 0
    /\ now' = now + 1
    /\ sleep_left' = sleep_left - 1
    /\ pc' = IF sleep_left = 1 THEN "loop" ELSE pc
    /\ UNCHANGED <<callVars, paramVars, current_step, steps, wfv_start, retry_count,
                   status_data, issued_at, history, queries, poll_sleeps, backoff_sleeps,
                   downloads, download_status, video_file, pub_failed, result, raised>>
    /\ UNCHANGED notPhase2

(* -------------------------- wait_and_download -------------------------- *)
\* variant: wait_and_download passes on whatever video_url it got
UrlMissing_Ignored(url) == FALSE

\* if not video_url: the member is absent, null or empty
UrlMissing(url) == url \in {Absent, None, ""}

\* video_url = status_data.get("video_url"); if not video_url: raise;
\* return download_video(video_url, output_path)
DownloadVideo ==
    /\ pc = "download"
    /\ IF UrlMissing(status_data.video_url)
          THEN /\ Raise(Exc("Exception", "No video URL in completed status", ""))
               /\ UNCHANGED <<steps, downloads, download_status, video_file>>
          ELSE /\ steps' = Append(steps, "download_video")
               /\ downloads' = downloads + 1
               /\ \E code \in DownloadStatuses :
                    /\ download_status' = code
                    /\ IF DownloadAccepted(code)
                          THEN /\ video_file' = TRUE
                               /\ pc' = RequiredNext("build_result", TRUE)
                               /\ UNCHANGED raised
                          ELSE /\ Raise(Exc("Exception", "Download error", StatusText(code)))
                               /\ UNCHANGED video_file
    /\ UNCHANGED <<callVars, paramVars, now, current_step, pollerVars, pub_failed, result>>
    /\ UNCHANGED notPhase2

(* ------------------ continue_with_audio, after the video ---------------- *)
\* duration = int(time.time() - start_time); result = {...}; current_step = 3
BuildResult ==
    /\ pc = "build_result"
    /\ result' = [NoResult EXCEPT !.video_path = IF video_file THEN VideoPath ELSE None,
                                  !.selected_option = selected_option,
                                  !.duration = now - start_time]
    /\ current_step' = 3
    /\ pc' = AfterDownload(skip_cloud, upload_youtube)
    /\ UNCHANGED <<callVars, paramVars, now, steps, pollerVars, downloads, download_status, video_file,
                   pub_failed, raised>>
    /\ UNCHANGED notPhase2

pubFrame == <<callVars, paramVars, now, pollerVars, downloads, download_status, video_file, raised>>

\* drive_result = upload_to_drive(final_video), inside the cloud try block
DriveUpload ==
    /\ pc = "drive"
    /\ current_step' = current_step + 1
    /\ steps' = Append(steps, "upload_to_drive")
    /\ \E ok \in BOOLEAN :
         IF ok THEN /\ result' = RecordLink(result, "drive_link", DriveLink)
                    /\ pc' = NextInCloudBlock("upload_to_drive", upload_youtube)
                    /\ UNCHANGED pub_failed
               ELSE /\ pc' = OnCloudError(upload_youtube)
                    /\ pub_failed' = pub_failed \cup {"upload_to_drive"}
                    /\ UNCHANGED result
    /\ UNCHANGED pubFrame
    /\ UNCHANGED notPhase2

\* sheet_result = log_video_generation(...), inside the cloud try block
SheetsLog ==
    /\ pc = "sheets"
    /\ current_step' = current_step + 1
    /\ steps' = Append(steps, "log_video_generation")
    /\ \E ok \in BOOLEAN :
         IF ok THEN /\ result' = RecordLink(result, "sheet_link", SheetLink)
                    /\ pc' = NextInCloudBlock("log_video_generation", upload_youtube)
                    /\ UNCHANGED pub_failed
               ELSE /\ pc' = OnCloudError(upload_youtube)
                    /\ pub_failed' = pub_failed \cup {"log_video_generation"}
                    /\ UNCHANGED result
    /\ UNCHANGED pubFrame
    /\ UNCHANGED notPhase2

\* send_video_notification(...), the last call inside the cloud try block
SendEmail ==
    /\ pc = "email"
    /\ current_step' = current_step + 1
    /\ steps' = Append(steps, "send_video_notification")
    /\ \E ok \in BOOLEAN :
         IF ok THEN /\ pc' = NextInCloudBlock("send_video_notification", upload_youtube)
                    /\ UNCHANGED pub_failed
               ELSE /\ pc' = OnCloudError(upload_youtube)
                    /\ pub_failed' = pub_failed \cup {"send_video_notification"}
    /\ UNCHANGED result
    /\ UNCHANGED pubFrame
    /\ UNCHANGED notPhase2

\* youtube_result = upload_to_youtube(...), in its own try block
YouTubeUpload ==
    /\ pc = "youtube"
    /\ current_step' = current_step + 1
    /\ steps' = Append(steps, "upload_to_youtube")
    /\ \E ok \in BOOLEAN :
         IF ok THEN /\ result' = RecordLink(result, "youtube_url", YouTubeUrl)
                    /\ pc' = "returned"
                    /\ UNCHANGED pub_failed
               ELSE /\ pc' = OnYouTubeError
                    /\ pub_failed' = pub_failed \cup {"upload_to_youtube"}
                    /\ UNCHANGED result
    /\ UNCHANGED pubFrame
    /\ UNCHANGED notPhase2

Next ==
    \/ Invoke
    \/ ValidateAudio
    \/ UploadAudio
    \/ CreateVideo
    \/ WaitStart
    \/ LoopTop
    \/ QueryRespond
    \/ SleepTick
    \/ DownloadVideo
    \/ BuildResult
    \/ DriveUpload
    \/ SheetsLog
    \/ SendEmail
    \/ YouTubeUpload

Spec == Init /\ [][Next]_vars

(* ------------------- the poller called on its own ---------------------- *)
\* wait_and_download(video_id, output_path) called directly, as the command
\* line of heygen_download_video.py does, for a job that exists
InitPoller ==
    /\ pc = "wait_start"
    /\ invocations = 0
    /\ HEYGEN_API_KEY \in BOOLEAN
    /\ audio_exists = TRUE
    /\ skip_cloud = TRUE
    /\ upload_youtube = FALSE
    /\ now = 0
    /\ start_time = 0
    /\ total_steps = 0
    /\ current_step = 0
    /\ steps = <<>>
    /\ upload_result = NoUpload
    /\ upload_response = NoUploadResponse
    /\ create_calls = 0
    /\ video_id = 1
    /\ jobs = 1
    /\ wfv_start = 0
    /\ retry_count = 0
    /\ status_data = NoStatus
    /\ issued_at = 0
    /\ sleep_left = 0
    /\ history = <<>>
    /\ queries = 0
    /\ poll_sleeps = 0
    /\ backoff_sleeps = 0
    /\ downloads = 0
    /\ download_status = 0
    /\ video_file = FALSE
    /\ pub_failed = {}
    /\ result = NoResult
    /\ raised = NoException
    /\ NamesIdle
    /\ TagsIdle
    /\ Phase1Idle
    /\ ToolsIdle

NextPoller ==
    \/ WaitStart
    \/ LoopTop
    \/ QueryRespond
    \/ SleepTick
    \/ DownloadVideo

PollerSpec == InitPoller /\ [][NextPoller]_vars

\* the interpreter keeps running the call: a request that was sent ends (it
\* answers, or fails at the latest on its 30 s timeout) and a sleep ends
PollerLive ==
    /\ PollerSpec
    /\ WF_vars(WaitStart)
    /\ WF_vars(LoopTop)
    /\ WF_vars(QueryRespond)
    /\ WF_vars(SleepTick)

TypeOK ==
    /\ pc \in {"idle", "validate", "upload", "create", "wait_start", "loop", "query",
               "poll_sleep", "backoff_sleep", "download", "build_result", "drive",
               "sheets", "email", "youtube", "returned", "raised",
               "p1_read", "tts_enter", "tts_request1", "tts_request2", "tts_write",
               "p1_copy", "p1_returned"}
    /\ invocations \in 0..MaxInvocations
    /\ retry_count \in 0..max_retries
    /\ now \in Nat
    /\ sleep_left \in 0..poll_interval
(* ----------------------- reading the history -------------------------- *)
LastQuery == history[Len(history)]

AllAnswered(classes) == \A i \in DOMAIN history : history[i].class \in classes

NonTerminalCount == Cardinality({i \in DOMAIN history : history[i].class = "nonterminal"})

RECURSIVE TrailingFailures(_)
TrailingFailures(h) ==
    IF h = <<>> \/ h[Len(h)].class # "network"
       THEN 0
       ELSE 1 + TrailingFailures(SubSeq(h, 1, Len(h) - 1))

WfvErrors == {"Video generation timed out", "network failure",
              "HeyGen status check error", "Video generation failed",
              "HEYGEN_API_KEY not found"}

WfvRaised == pc = "raised" /\ raised.msg \in WfvErrors

Asleep == pc \in {"poll_sleep", "backoff_sleep"}

(* ------------------------------ claims --------------------------------- *)
\* C1: when the answered queries are n non-terminal statuses followed by
\* 'completed' (no network failure), wait_for_video returns the completed
\* status data after exactly n+1 queries and exactly n sleeps of
\* poll_interval: one between each pair of consecutive queries, none after
\* the last; and it returns on nothing else than 'completed'.
C1_ExactQueriesAndSleeps ==
    /\ pc = "download" => (Len(history) > 0 /\ LastQuery.class = "completed")
    /\ (Len(history) > 0 /\ AllAnswered({"nonterminal", "completed"})) =>
          /\ \A i \in 1..(Len(history) - 1) :
                /\ history[i].class = "nonterminal"
                /\ history[i + 1].issued = history[i].arrived + poll_interval
          /\ LastQuery.class = "completed" =>
                /\ ~WfvRaised
                /\ ~Asleep
                /\ status_data.status = "completed"
                /\ queries = NonTerminalCount + 1
                /\ Len(history) = queries
                /\ poll_sleeps = NonTerminalCount
                /\ backoff_sleeps = 0
                /\ sleep_left = 0

C1_Witness ==
    /\ pc = "download"
    /\ Len(history) = 3
    /\ history[1].class = "nonterminal"
    /\ history[2].class = "nonterminal"
    /\ status_data.video_url = VideoUrl

\* C2 as stated: whenever wait_for_video has ended with the elapsed time past
\* max_wait and no query had returned 'completed' or 'failed' before the
\* elapsed time exceeded max_wait, it ended by raising TimeoutError.
C2_Original ==
    (/\ pc \in {"download", "raised"}
     /\ now - wfv_start > max_wait
     /\ ~\E i \in DOMAIN history :
            /\ history[i].class \in {"completed", "failed"}
            /\ history[i].arrived <= max_wait)
    => (pc = "raised" /\ raised.type = "TimeoutError")

\* C2 amended: TimeoutError is raised exactly by a loop iteration whose
\* timeout check finds elapsed > max_wait, and such an iteration issues no
\* query; a call that ended without a terminal status, an HTTP error or a
\* third consecutive network failure ended by TimeoutError; after the
\* TimeoutError there is no further query and no download.
C2_TimeoutAtLoopTop ==
    /\ []((/\ pc \in {"download", "raised"}
           /\ Len(history) > 0
           /\ LastQuery.class \in {"nonterminal", "network"}
           /\ TrailingFailures(history) < 3)
          => (pc = "raised" /\ raised.type = "TimeoutError" /\ downloads = 0
              /\ ~video_file /\ queries = Len(history)))
    /\ [][/\ (pc = "loop" /\ now - wfv_start > max_wait) =>
                (pc' = "raised" /\ raised'.type = "TimeoutError" /\ queries' = queries)
          /\ (queries' # queries) =>
                (pc = "loop" /\ now - wfv_start <= max_wait /\ queries' = queries + 1)
          /\ (raised'.type = "TimeoutError" /\ raised.type # "TimeoutError") =>
                (pc = "loop" /\ now - wfv_start > max_wait)
          /\ (raised.type = "TimeoutError") =>
                (queries' = queries /\ downloads' = downloads /\ pc' = "raised")
         ]_vars

C2_Witness ==
    /\ pc = "raised"
    /\ raised.type = "TimeoutError"
    /\ Len(history) = 3
    /\ AllAnswered({"nonterminal"})

\* C3: two consecutive network failures followed by a successful query do
\* not raise and leave the retry counter at 0; the third consecutive network
\* failure is raised to the caller and no 4th query is made.
C3_NetworkRetries ==
    /\ TrailingFailures(history) <= 3
    /\ TrailingFailures(history) = 3 =>
          /\ pc = "raised"
          /\ raised.type \in NetworkFailures
          /\ queries = Len(history)
    /\ TrailingFailures(history) \in {1, 2} =>
          /\ ~(pc = "raised" /\ raised.type \in NetworkFailures)
          /\ pc \in {"backoff_sleep", "loop", "query", "raised"}
    /\ (Len(history) > 0 /\ LastQuery.class \in {"nonterminal", "completed", "failed"}) =>
          retry_count = 0

C3_Witness ==
    /\ Len(history) = 3
    /\ history[1].class = "network"
    /\ history[2].class = "network"
    /\ history[3].class = "nonterminal"
    /\ retry_count = 0
    /\ pc = "poll_sleep"

\* C4 as stated: the poller is never asleep (in a poll-interval sleep or in
\* a backoff sleep) once the elapsed time exceeds max_wait.
C4_NeverAsleepPastMaxWait ==
    ~(Asleep /\ sleep_left > 0 /\ now - wfv_start > max_wait)

\* C5: a 'failed' status makes wait_for_video raise an error that carries
\* the vendor's reason; no further query follows and nothing is downloaded.
C5_FailedRaisesWithReason ==
    /\ (Len(history) > 0 /\ LastQuery.class = "failed") =>
          /\ pc = "raised"
          /\ raised.msg = "Video generation failed"
          /\ status_data.status = "failed"
          /\ status_data.error # Absent => raised.detail = status_data.error
          /\ queries = Len(history)
          /\ downloads = 0
          /\ ~video_file
    /\ raised.msg = "Video generation failed" =>
          (Len(history) > 0 /\ LastQuery.class = "failed")

C5_Witness ==
    /\ pc = "raised"
    /\ raised.detail = "render crashed"
    /\ Len(history) = 2

\* C6: after a successful query with any status other than 'completed' and
\* 'failed' (an unrecognized string, a missing status) wait_for_video neither
\* returns nor raises on it: it sleeps poll_interval and is back at the top of
\* the loop, where it queries again unless the timeout check fires.
C6_OtherStatusIsNonTerminal ==
    (Len(history) > 0 /\ LastQuery.class = "nonterminal") =>
       /\ status_data.status \notin {"completed", "failed"}
       /\ \/ /\ pc = "poll_sleep"
             /\ sleep_left \in 1..poll_interval
             /\ now - wfv_start = LastQuery.arrived + (poll_interval - sleep_left)
          \/ /\ pc = "loop"
             /\ now - wfv_start = LastQuery.arrived + poll_interval
          \/ /\ pc = "query"
             /\ issued_at = LastQuery.arrived + poll_interval
             /\ queries = Len(history) + 1
          \/ /\ pc = "raised"
             /\ raised.type = "TimeoutError"
             /\ now - wfv_start = LastQuery.arrived + poll_interval
             /\ now - wfv_start > max_wait

C6_Witness ==
    /\ pc = "query"
    /\ queries = 2
    /\ status_data.status = "rendering"

\* C7: wait_for_video always terminates: it returns the completed status or
\* raises; the cap on the number of queries is never what stops it.
C7_Terminates ==
    /\ <>(pc \in {"download", "raised"})
    /\ [](queries < MaxQueries)

C7_Witness ==
    /\ pc \in {"download", "raised"}
    /\ queries = 4
    /\ now - wfv_start > max_wait

(* ---------------------- claims on continue_with_audio ------------------- *)
Ended == pc \in {"returned", "raised"}

RequiredOrder == <<"upload_audio", "create_video", "wait_for_video", "download_video">>

PublicationSteps == {"upload_to_drive", "log_video_generation",
                     "send_video_notification", "upload_to_youtube"}

\* C8 as stated: every invocation of continue_with_audio that has ended has
\* called create_video exactly once.
C8_Original == Ended => create_calls = 1

\* C8 amended: create_video is called at most once per invocation, and
\* exactly once in the invocations whose audio upload succeeded; a created
\* render job ends in exactly one of a downloaded video or a failure raised
\* to the caller.
C8_OneJobPerUploadedAudio ==
    /\ create_calls <= 1
    /\ video_id # NoVideoId => create_calls = 1
    /\ Ended => (create_calls = 1 <=> upload_result # NoUpload)
    /\ (Ended /\ video_id # NoVideoId) =>
          \/ /\ pc = "returned"
             /\ raised = NoException
             /\ video_file
             /\ downloads = 1
             /\ result.video_path = VideoPath
          \/ /\ pc = "raised"
             /\ raised # NoException
             /\ ~video_file
             /\ result = NoResult

C8_Witness ==
    /\ pc = "returned"
    /\ create_calls = 1
    /\ video_id # NoVideoId
    /\ video_file

\* C9: the required steps run in the order audio upload, render-job
\* creation, poll, download, each only after the one before succeeded; a
\* failure of one of them is raised to the caller and ends the invocation,
\* with no later required step and no publication step attempted.
C9_RequiredStepsInOrder ==
    /\ \A i \in DOMAIN steps :
          /\ i <= 4 => steps[i] = RequiredOrder[i]
          /\ i > 4 => steps[i] \in PublicationSteps
    /\ Len(steps) >= 2 => upload_result # NoUpload
    /\ Len(steps) >= 3 => video_id # NoVideoId
    /\ Len(steps) >= 4 => (Len(history) > 0 /\ LastQuery.class = "completed")
    /\ Len(steps) >= 5 => video_file
    /\ (pc = "raised") <=> (raised # NoException)
    /\ raised # NoException =>
          /\ Len(steps) <= 4
          /\ result = NoResult
          /\ pub_failed = {}

C9_Witness ==
    /\ pc = "raised"
    /\ raised.type = "TimeoutError"
    /\ steps = SubSeq(RequiredOrder, 1, 3)
    /\ ~skip_cloud
    /\ upload_youtube

\* C10: once upload, render, poll and download succeeded, a failing
\* publication step raises nothing to the caller: the result keeps the video
\* path and the duration, and drive_link stays None when the storage upload
\* is the step that failed.
C10_PublicationFailureIsWarning ==
    /\ pub_failed # {} =>
          /\ pc # "raised"
          /\ raised = NoException
          /\ video_file
          /\ result.video_path = VideoPath
          /\ result.duration >= 0
    /\ "upload_to_drive" \in pub_failed => result.drive_link = None
    /\ pc = "returned" =>
          /\ raised = NoException
          /\ result.video_path = VideoPath
          /\ result.duration >= 0

C10_Witness ==
    /\ pc = "returned"
    /\ "upload_to_drive" \in pub_failed
    /\ result.duration > 0

(* ------------------------ claims on the publication -------------------- *)
Attempted(step) == \E i \in DOMAIN steps : steps[i] = step

Succeeded(step) == Attempted(step) /\ step \notin pub_failed

CloudSteps == {"upload_to_drive", "log_video_generation", "send_video_notification"}

LinkFields == {"drive_link", "sheet_link", "youtube_url"}

\* within one invocation a link that was recorded stays as it is
LinksKept ==
    invocations' = invocations =>
       \A f \in LinkFields : result[f] # None => result'[f] = result[f]

\* C11 as stated: every enabled publication step is attempted whatever the
\* outcome of the others: an invocation that returns with the cloud steps
\* enabled has attempted the storage upload, the log append and the email,
\* and with upload_youtube set it has attempted the video-hosting upload.
C11_Original ==
    pc = "returned" =>
       /\ ~skip_cloud => \A s \in CloudSteps : Attempted(s)
       /\ upload_youtube => Attempted("upload_to_youtube")

\* C11 amended: the publication is isolated in two groups.  The storage
\* upload is attempted whenever the cloud steps are enabled, the log append
\* only after the storage upload succeeded and the email only after the log
\* append succeeded; the video-hosting upload is attempted whenever it is
\* enabled, whatever happened in the first group; and no failure undoes a
\* link that was already recorded.
C11_TwoIsolatedGroups ==
    /\ [](pc = "returned" =>
            /\ Attempted("upload_to_drive") <=> ~skip_cloud
            /\ Attempted("log_video_generation") <=> Succeeded("upload_to_drive")
            /\ Attempted("send_video_notification") <=> Succeeded("log_video_generation")
            /\ Attempted("upload_to_youtube") <=> upload_youtube)
    /\ [][LinksKept]_vars

C11_Witness ==
    /\ pc = "returned"
    /\ "log_video_generation" \in pub_failed
    /\ result.drive_link = DriveLink
    /\ ~Attempted("send_video_notification")
    /\ Succeeded("upload_to_youtube")

\* C12: the video-hosting upload is attempted exactly in the invocations
\* that set upload_youtube and downloaded the video, whatever skip_cloud is
\* and whether or not the cloud block failed; when it fails, youtube_url
\* stays None and nothing is raised to the caller.
C12_YouTubeIsolated ==
    /\ Attempted("upload_to_youtube") => (upload_youtube /\ video_file)
    /\ Ended => (Attempted("upload_to_youtube") <=> (upload_youtube /\ video_file))
    /\ "upload_to_youtube" \in pub_failed =>
          /\ result.youtube_url = None
          /\ raised = NoException
          /\ pc = "returned"

C12_Witness ==
    /\ pc = "returned"
    /\ skip_cloud
    /\ "upload_to_youtube" \in pub_failed
    /\ result.video_path = VideoPath

\* C13: in every returned result drive_link is set exactly when the storage
\* upload ran and succeeded, sheet_link exactly when the log append ran and
\* succeeded, youtube_url exactly when the video-hosting upload ran and
\* succeeded.
C13_LinksIffSucceeded ==
    pc = "returned" =>
       /\ result.drive_link # None <=> Succeeded("upload_to_drive")
       /\ result.sheet_link # None <=> Succeeded("log_video_generation")
       /\ result.youtube_url # None <=> Succeeded("upload_to_youtube")
       /\ result.drive_link \in {None, DriveLink}
       /\ result.sheet_link \in {None, SheetLink}
       /\ result.youtube_url \in {None, YouTubeUrl}

C13_Witness ==
    /\ pc = "returned"
    /\ result.drive_link = DriveLink
    /\ result.sheet_link = None
    /\ "log_video_generation" \in pub_failed
    /\ result.youtube_url = YouTubeUrl

(* ------------------ the file name, called on its own ------------------ *)
nameFrame == <<phase2Vars, tagVars, phase1Vars, toolVars>>

InitNames ==
    /\ pc = "idle"
    /\ Phase2Idle
    /\ TagsIdle
    /\ Phase1Idle
    /\ ToolsIdle
    /\ name_pc = "start"
    /\ given_stem \in Stems
    /\ variant = None
    /\ audio_stem = <<>>
    /\ base_name = <<>>
    /\ selected_option = None

\* Phase 1 names its two outputs after the script stem, and the file of one
\* variant is the one passed to continue_with_audio
Phase1Output ==
    /\ name_pc = "start"
    /\ \E v \in Variants :
         /\ variant' = v
         /\ audio_stem' = OutputStem(given_stem, v)
    /\ name_pc' = "named"
    /\ UNCHANGED <<given_stem, base_name, selected_option>>
    /\ UNCHANGED nameFrame

\* continue_with_audio is given an audio file that Phase 1 did not name
GivenAudio ==
    /\ name_pc = "start"
    /\ audio_stem' = given_stem
    /\ name_pc' = "named"
    /\ UNCHANGED <<given_stem, variant, base_name, selected_option>>
    /\ UNCHANGED nameFrame

\* audio_stem = audio_file.stem; base_name, selected_option = ...
DeriveNames ==
    /\ name_pc = "named"
    /\ base_name' = DerivedNames(audio_stem).base_name
    /\ selected_option' = DerivedNames(audio_stem).selected_option
    /\ name_pc' = "derived"
    /\ UNCHANGED <<given_stem, variant, audio_stem>>
    /\ UNCHANGED nameFrame

NextNames ==
    \/ Phase1Output
    \/ GivenAudio
    \/ DeriveNames

NameSpec == InitNames /\ [][NextNames]_vars

(* ------------------------ claims on the file name ----------------------- *)
\* the stem is <base>_audio_<v> for the base returned
NewForm(stem, v) == EndsWith(stem, AudioMarker(v))

\* the stem is <base>_<v>
LegacyForm(stem, v) == EndsWith(stem, <<VariantPiece(v)>>)

DerivedAs(base, option) == base_name = base /\ selected_option = option

\* C14 as stated: a stem of the form <base>_audio_OptionA (or _OptionB)
\* yields base_name = <base> and that option; otherwise a stem of the form
\* <base>_OptionA (or _OptionB) yields <base> and that option; any other stem
\* yields the whole stem and "Custom".
C14_DerivationByForm ==
    name_pc = "derived" =>
       IF \E v \in Variants : NewForm(audio_stem, v)
          THEN \A v \in Variants : NewForm(audio_stem, v) =>
                  DerivedAs(SubSeq(audio_stem, 1, Len(audio_stem) - 2), v)
       ELSE IF \E v \in Variants : LegacyForm(audio_stem, v)
          THEN \A v \in Variants : LegacyForm(audio_stem, v) =>
                  DerivedAs(SubSeq(audio_stem, 1, Len(audio_stem) - 1), v)
       ELSE DerivedAs(audio_stem, "Custom")

\* C15 as stated: for every script stem s and variant v, the name Phase 1
\* gives the file of v is derived back to base_name = s and
\* selected_option = v, also when s itself contains a marker.
C15_RoundTrip ==
    (name_pc = "derived" /\ variant # None) => DerivedAs(given_stem, variant)

(* ------------------ the markup helpers (elevenlabs_tts.py) -------------- *)
\* A text is a sequence of characters of four kinds: "[", "]", a word
\* character "w" (\w) and a whitespace character " " (\s).
MaxTextLen == 6

TextChars == {"[", "]", "w", " "}

Texts == UNION {[1..n -> TextChars] : n \in 0..MaxTextLen}

\* the character class [\w\s]
InTagClass(c) == c \in {"w", " "}

\* the first position from i on that is not in the class [\w\s]
RECURSIVE ClassRunEnd(_, _)
ClassRunEnd(t, i) ==
    IF i <= Len(t) /\ InTagClass(t[i]) THEN ClassRunEnd(t, i + 1) ELSE i

\* the first position from i on that is not whitespace: \s*
RECURSIVE SpaceRunEnd(_, _)
SpaceRunEnd(t, i) ==
    IF i <= Len(t) /\ t[i] = " " THEN SpaceRunEnd(t, i + 1) ELSE i

\* \[[\w\s]+\] matched at position i: the position of its closing bracket,
\* or 0 when it does not match there
TagClose(t, i) ==
    IF /\ i <= Len(t)
       /\ t[i] = "["
       /\ ClassRunEnd(t, i + 1) > i + 1
       /\ ClassRunEnd(t, i + 1) <= Len(t)
       /\ t[ClassRunEnd(t, i + 1)] = "]"
       THEN ClassRunEnd(t, i + 1)
       ELSE 0

\* re.sub(r'\[[\w\s]+\]\s*', '', text) from position i on: one pass, left to
\* right, the text after a match is scanned from the end of the match
RECURSIVE StripFrom(_, _)
StripFrom(t, i) ==
    IF i > Len(t) THEN <<>>
    ELSE IF TagClose(t, i) # 0
            THEN StripFrom(t, SpaceRunEnd(t, TagClose(t, i) + 1))
            ELSE <<t[i]>> \o StripFrom(t, i + 1)

\* def strip_audio_tags(text): return re.sub(r'\[[\w\s]+\]\s*', '', text)
strip_audio_tags(text) == StripFrom(text, 1)

\* def has_audio_tags(text): return bool(re.search(r'\[[\w\s]+\]', text))
has_audio_tags(text) == \E i \in 1..Len(text) : TagClose(text, i) # 0

tagFrame == <<phase2Vars, nameVars, phase1Vars, toolVars>>

InitTags ==
    /\ pc = "idle"
    /\ Phase2Idle
    /\ NamesIdle
    /\ Phase1Idle
    /\ ToolsIdle
    /\ tag_pc = "start"
    /\ tag_text \in Texts
    /\ tag_found = FALSE
    /\ tag_stripped = <<>>
    /\ tag_found_after = FALSE

\* contains_tags = has_audio_tags(text)
DetectTags ==
    /\ tag_pc = "start"
    /\ tag_found' = has_audio_tags(tag_text)
    /\ tag_pc' = "detected"
    /\ UNCHANGED <<tag_text, tag_stripped, tag_found_after>>
    /\ UNCHANGED tagFrame

\* text = strip_audio_tags(text), and has_audio_tags asked of the result
StripTags ==
    /\ tag_pc = "detected"
    /\ tag_stripped' = strip_audio_tags(tag_text)
    /\ tag_found_after' = has_audio_tags(strip_audio_tags(tag_text))
    /\ tag_pc' = "stripped"
    /\ UNCHANGED <<tag_text, tag_found>>
    /\ UNCHANGED tagFrame

NextTags ==
    \/ DetectTags
    \/ StripTags

TagSpec == InitTags /\ [][NextTags]_vars

(* ------------------------ claims on the markup -------------------------- *)
\* the text holds "[", then one or more word or whitespace characters, then "]"
HasSpan(t) ==
    \E i \in 1..Len(t), j \in 1..Len(t) :
       /\ j >= i + 2
       /\ t[i] = "["
       /\ t[j] = "]"
       /\ \A k \in (i + 1)..(j - 1) : t[k] \in {"w", " "}

\* C19 as stated: for every text over brackets, word characters and
\* whitespace, has_audio_tags(strip_audio_tags(text)) is false, and
\* has_audio_tags(text) is true exactly when the text holds a '[...]' span of
\* one or more word or whitespace characters.
C19_StripLeavesNoTags ==
    /\ tag_pc \in {"detected", "stripped"} => (tag_found <=> HasSpan(tag_text))
    /\ tag_pc = "stripped" => ~tag_found_after

(* ------------- Phase 1 and the synthesis adapter it calls --------------- *)
\* generate_audio_only (run_pipeline.py) reads the script and calls
\* text_to_speech_dual, which calls text_to_speech (elevenlabs_tts.py) once
\* for Option A and once for Option B.
FALLBACK_MODEL == "eleven_multilingual_v2"

\* the values ELEVENLABS_MODEL can give DEFAULT_MODEL
Models == {"eleven_v3", "eleven_turbo_v2_5"}

\* script files: empty, blank, plain, with one tag, with a tag inside brackets
ScriptFiles == {<<>>, <<" ">>, <<"w", " ">>, <<"[", "w", "]", " ", "w">>,
                <<"[", "[", "w", "]", "w", "]">>}

\* the answers of the vendor to a synthesis request
Responses == {[status_code |-> 200, text |-> "audio"],
              [status_code |-> 401, text |-> "unauthorized"],
              [status_code |-> 429, text |-> "quota exceeded"]}

\* f"ElevenLabs API error: {response.status_code} - {response.text}"
ApiErrorText(resp) ==
    IF resp.status_code = 401 THEN "401 - unauthorized"
    ELSE IF resp.status_code = 429 THEN "429 - quota exceeded"
    ELSE "200 - audio"

\* f.read().strip() from position i on, and the whole of it
RECURSIVE LStrip(_)
LStrip(t) == IF t # <<>> /\ Head(t) = " " THEN LStrip(Tail(t)) ELSE t

RECURSIVE RStrip(_)
RStrip(t) ==
    IF t # <<>> /\ t[Len(t)] = " " THEN RStrip(SubSeq(t, 1, Len(t) - 1)) ELSE t

\* read_script_file of a .txt file: return f.read().strip()
read_script_file(content) == RStrip(LStrip(content))

\* variant: the test of the script text is missing
EmptyScript_Ignored(text) == FALSE

\* if not script_text: raise ValueError("Script file is empty")
EmptyScript(text) == text = <<>>

\* variant: the fallback request is sent whatever the first answer was
NeedsFallback_Always(resp, model) == model = "eleven_v3"

\* variant: every primary model falls back
NeedsFallback_AnyModel(resp, model) == resp.status_code # 200

\* if response.status_code != 200 and model == "eleven_v3":
NeedsFallback(resp, model) == resp.status_code # 200 /\ model = "eleven_v3"

\* if contains_tags: text = strip_audio_tags(text)
FallbackText(text, tags) == IF tags THEN strip_audio_tags(text) ELSE text

\* variant: text_to_speech_dual returns after the first call
AfterWrite_SkipsOptionB(v) == "p1_copy"

\* text_to_speech_dual: the call for Option B follows the call for Option A,
\* the dictionary is returned after the call for Option B
AfterWrite(v) == IF v = "OptionA" THEN "tts_enter" ELSE "p1_copy"

\* variant: Phase 1 goes on to Phase 2 in every mode
AutoContinue_Always(m) == TRUE

\* only run_full_pipeline calls continue_with_audio on what
\* generate_audio_only returned
AutoContinue(m) == m = "full"

phase2State == <<invocations, HEYGEN_API_KEY, audio_exists, skip_cloud, upload_youtube,
                 now, start_time, total_steps, current_step, steps, upload_result, upload_response,
                 create_calls, video_id, jobs, pollerVars, downloads, download_status, video_file,
                 pub_failed, result>>

phase1Frame == <<phase2State, nameVars, tagVars, toolVars>>

configVars == <<mode, ELEVENLABS_API_KEY, ELEVENLABS_VOICE_ID, DEFAULT_MODEL, script_file>>

Phase1Positions == {"p1_read", "tts_enter", "tts_request1", "tts_request2",
                    "tts_write", "p1_copy", "p1_returned", "raised"}

\* variant: a failing synthesis call removes what was written before it
FilesAfterFailure_CleanedUp(files) == {}

\* text_to_speech_dual has no try/finally around its two calls: a failing call
\* leaves the files written so far where they are
FilesAfterFailure(files) == files

\* an exception raised inside generate_audio_only leaves it
Phase1Raise(e) == pc' = "raised" /\ raised' = e

InitPhase1 ==
    /\ pc = "p1_read"
    /\ Phase2Idle
    /\ NamesIdle
    /\ TagsIdle
    /\ mode = "audio_only"
    /\ ELEVENLABS_API_KEY \in BOOLEAN
    /\ ELEVENLABS_VOICE_ID \in BOOLEAN
    /\ DEFAULT_MODEL \in Models
    /\ script_file \in ScriptFiles
    /\ SynthesisIdle
    /\ ToolsIdle

\* script_text = read_script_file(script_path); if not script_text: raise;
\* then text_to_speech_dual is called and it calls text_to_speech for Option A
ReadScript ==
    /\ pc = "p1_read"
    /\ script_text' = read_script_file(script_file)
    /\ IF EmptyScript(read_script_file(script_file))
          THEN /\ Phase1Raise(Exc("ValueError", "Script file is empty", ""))
               /\ UNCHANGED tts_option
          ELSE /\ pc' = "tts_enter"
               /\ tts_option' = "OptionA"
               /\ UNCHANGED raised
    /\ UNCHANGED <<configVars, tts_text, tts_model, contains_tags, response, requests,
                   tmp_files, out_files, audio_results, audio_result>>
    /\ UNCHANGED phase1Frame

\* text_to_speech up to the first request: the credential and the voice are
\* checked, model = model_id or DEFAULT_MODEL, contains_tags = has_audio_tags(text)
TtsEnter ==
    /\ pc = "tts_enter"
    /\ IF ~ELEVENLABS_API_KEY
          THEN /\ Phase1Raise(Exc("ValueError", "ELEVENLABS_API_KEY not found", ""))
               /\ UNCHANGED <<tts_text, tts_model, contains_tags>>
       ELSE IF ~ELEVENLABS_VOICE_ID
          THEN /\ Phase1Raise(Exc("ValueError", "Voice ID not provided", ""))
               /\ UNCHANGED <<tts_text, tts_model, contains_tags>>
       ELSE /\ tts_text' = script_text
            /\ tts_model' = DEFAULT_MODEL
            /\ contains_tags' = has_audio_tags(script_text)
            /\ pc' = "tts_request1"
            /\ UNCHANGED raised
    /\ response' = NoResponse
    /\ tmp_files' = IF pc' = "raised" THEN FilesAfterFailure(tmp_files) ELSE tmp_files
    /\ UNCHANGED <<configVars, script_text, tts_option, requests, out_files,
                   audio_results, audio_result>>
    /\ UNCHANGED phase1Frame

\* response = requests.post(url, json=data, headers=headers), the first
\* request, and the two tests of response.status_code that follow it
FirstRequest ==
    /\ pc = "tts_request1"
    /\ \/ /\ requests' = Append(requests, [option |-> tts_option, model |-> tts_model,
                                           text |-> tts_text, status_code |-> 0])
          /\ Phase1Raise(Exc("ConnectionError", "synthesis request failed", ""))
          /\ UNCHANGED <<response, tts_text, tts_model>>
       \/ \E resp \in Responses :
            /\ requests' = Append(requests, [option |-> tts_option, model |-> tts_model,
                                             text |-> tts_text,
                                             status_code |-> resp.status_code])
            /\ response' = resp
            /\ IF NeedsFallback(resp, tts_model)
                  THEN /\ tts_text' = FallbackText(tts_text, contains_tags)
                       /\ tts_model' = FALLBACK_MODEL
                       /\ pc' = "tts_request2"
                       /\ UNCHANGED raised
               ELSE IF resp.status_code # 200
                  THEN /\ Phase1Raise(Exc("Exception", "ElevenLabs API error",
                                          ApiErrorText(resp)))
                       /\ UNCHANGED <<tts_text, tts_model>>
               ELSE /\ pc' = "tts_write"
                    /\ UNCHANGED <<raised, tts_text, tts_model>>
    /\ tmp_files' = IF pc' = "raised" THEN FilesAfterFailure(tmp_files) ELSE tmp_files
    /\ UNCHANGED <<configVars, script_text, tts_option, contains_tags,
                   out_files, audio_results, audio_result>>
    /\ UNCHANGED phase1Frame

\* response = requests.post(url, json=data, headers=headers), the request to
\* the fallback model, and the test of response.status_code that follows it
FallbackRequest ==
    /\ pc = "tts_request2"
    /\ \/ /\ requests' = Append(requests, [option |-> tts_option, model |-> tts_model,
                                           text |-> tts_text, status_code |-> 0])
          /\ Phase1Raise(Exc("ConnectionError", "synthesis request failed", ""))
          /\ UNCHANGED response
       \/ \E resp \in Responses :
            /\ requests' = Append(requests, [option |-> tts_option, model |-> tts_model,
                                             text |-> tts_text,
                                             status_code |-> resp.status_code])
            /\ response' = resp
            /\ IF resp.status_code # 200
                  THEN Phase1Raise(Exc("Exception", "ElevenLabs API error",
                                       ApiErrorText(resp)))
                  ELSE pc' = "tts_write" /\ UNCHANGED raised
    /\ tmp_files' = IF pc' = "raised" THEN FilesAfterFailure(tmp_files) ELSE tmp_files
    /\ UNCHANGED <<configVars, script_text, tts_option, tts_text, tts_model,
                   contains_tags, out_files, audio_results, audio_result>>
    /\ UNCHANGED phase1Frame

\* with open(output_path, "wb") as f: f.write(response.content); return
\* output_path; text_to_speech_dual goes on with Option B or returns the pair
WriteAudio ==
    /\ pc = "tts_write"
    /\ tmp_files' = tmp_files \cup {OptionPath(tts_option)}
    /\ pc' = AfterWrite(tts_option)
    /\ IF AfterWrite(tts_option) = "tts_enter"
          THEN /\ tts_option' = "OptionB"
               /\ UNCHANGED audio_results
          ELSE /\ audio_results' = [option_a |-> OptionPath("OptionA"),
                                    option_b |-> OptionPath("OptionB")]
               /\ UNCHANGED tts_option
    /\ UNCHANGED <<configVars, script_text, tts_text, tts_model, contains_tags, response,
                   requests, out_files, audio_result, raised>>
    /\ UNCHANGED phase1Frame

\* shutil.copy2(audio_results['option_a'], audio_output_a), the same for B,
\* and the dictionary generate_audio_only returns
SaveOutputs ==
    /\ pc = "p1_copy"
    /\ IF {audio_results.option_a, audio_results.option_b} \subseteq tmp_files
          THEN /\ out_files' = out_files \cup {OutputPath("OptionA"), OutputPath("OptionB")}
               /\ audio_result' = [script_length |-> Len(script_text),
                                   audio_option_a |-> OutputPath("OptionA"),
                                   audio_option_b |-> OutputPath("OptionB")]
               /\ pc' = "p1_returned"
               /\ UNCHANGED raised
          ELSE /\ Phase1Raise(Exc("FileNotFoundError", "No such file", ""))
               /\ out_files' = IF audio_results.option_a \in tmp_files
                                  THEN out_files \cup {OutputPath("OptionA")}
                                  ELSE out_files
               /\ UNCHANGED audio_result
    /\ UNCHANGED <<configVars, script_text, tts_option, tts_text, tts_model,
                   contains_tags, response, requests, tmp_files, audio_results>>
    /\ UNCHANGED phase1Frame

NextPhase1 ==
    \/ ReadScript
    \/ TtsEnter
    \/ FirstRequest
    \/ FallbackRequest
    \/ WriteAudio
    \/ SaveOutputs

Phase1Spec == InitPhase1 /\ [][NextPhase1]_vars

(* ----------------------- claims on the synthesis ------------------------ *)
\* the vendor requests sent by the text_to_speech call for variant v
RequestsOf(v) == SelectSeq(requests, LAMBDA r : r.option = v)

\* the request got an answer and the answer was not 200
Rejected(r) == r.status_code \notin {0, 200}

\* C16: text_to_speech_dual on a non-empty text either returns a pair of two
\* distinct audio paths after both synthesis calls succeeded, or raises; when
\* either call fails no pair and no single path is returned.
C16_BothOrNothing ==
    /\ audio_results # NoAudioResults =>
          /\ audio_results.option_a # None
          /\ audio_results.option_b # None
          /\ audio_results.option_a # audio_results.option_b
          /\ {audio_results.option_a, audio_results.option_b} \subseteq tmp_files
          /\ \A v \in Variants : \E i \in DOMAIN requests :
                requests[i].option = v /\ requests[i].status_code = 200
          /\ raised = NoException
    /\ pc = "raised" => (audio_results = NoAudioResults /\ audio_result = NoAudioResult)
    /\ pc \in {"p1_copy", "p1_returned"} => audio_results # NoAudioResults
    /\ tts_option # None => script_text # <<>>

C16_Witness ==
    /\ pc = "raised"
    /\ tts_option = "OptionB"
    /\ OptionPath("OptionA") \in tmp_files
    /\ OptionPath("OptionB") \notin tmp_files
    /\ audio_results = NoAudioResults

\* C17: a call of text_to_speech sends at most two vendor requests; the
\* second is sent only after the first was rejected, to the fallback model
\* and with the text strip_audio_tags gives, and is never repeated; when the
\* second request is rejected too the call raises an error carrying the
\* vendor's status and body and writes no audio file.
C17_AtMostTwoRequests ==
    \A v \in Variants :
       /\ Len(RequestsOf(v)) <= 2
       /\ Len(RequestsOf(v)) >= 1 =>
             /\ RequestsOf(v)[1].model = DEFAULT_MODEL
             /\ RequestsOf(v)[1].text = script_text
       /\ Len(RequestsOf(v)) = 2 =>
             /\ Rejected(RequestsOf(v)[1])
             /\ RequestsOf(v)[2].model = FALLBACK_MODEL
             /\ RequestsOf(v)[2].text = strip_audio_tags(script_text)
       /\ (Len(RequestsOf(v)) = 2 /\ Rejected(RequestsOf(v)[2])) =>
             /\ pc = "raised"
             /\ raised.type = "Exception"
             /\ response.status_code = RequestsOf(v)[2].status_code
             /\ raised.detail = ApiErrorText(response)
             /\ OptionPath(v) \notin tmp_files

C17_Witness ==
    /\ pc = "raised"
    /\ Len(requests) = 2
    /\ requests[1].status_code = 401
    /\ requests[2].status_code = 429
    /\ contains_tags
    /\ requests[2].text # requests[1].text
    /\ raised.detail = "429 - quota exceeded"
    /\ tmp_files = {}

\* the call for variant v is about to send its fallback request
FallbackPending(v) == pc = "tts_request2" /\ tts_option = v

\* C18 as stated: whenever the primary request is rejected the adapter sends
\* exactly one request to the fallback model before failing, whichever
\* primary model is selected.
C18_Original ==
    \A v \in Variants :
       (Len(RequestsOf(v)) >= 1 /\ Rejected(RequestsOf(v)[1])) =>
          \/ FallbackPending(v)
          \/ Len(RequestsOf(v)) = 2 /\ RequestsOf(v)[2].model = FALLBACK_MODEL

\* C18 amended: when the primary request is rejected and the primary model
\* is eleven_v3, exactly one request is sent to the fallback model before
\* the call fails; with any other primary model a rejected primary request
\* makes the call raise at once, and the fallback model is never tried.
C18_FallbackOnlyFromV3 ==
    \A v \in Variants :
       (Len(RequestsOf(v)) >= 1 /\ Rejected(RequestsOf(v)[1])) =>
          IF RequestsOf(v)[1].model = "eleven_v3"
             THEN \/ FallbackPending(v) /\ Len(RequestsOf(v)) = 1
                  \/ Len(RequestsOf(v)) = 2 /\ RequestsOf(v)[2].model = FALLBACK_MODEL
             ELSE /\ Len(RequestsOf(v)) = 1
                  /\ pc = "raised"
                  /\ raised.type = "Exception"
                  /\ raised.detail = ApiErrorText(response)
                  /\ response.status_code = RequestsOf(v)[1].status_code
                  /\ OptionPath(v) \notin tmp_files

C18_Witness ==
    /\ pc = "raised"
    /\ DEFAULT_MODEL = "eleven_turbo_v2_5"
    /\ tts_option = "OptionB"
    /\ Len(RequestsOf("OptionB")) = 1
    /\ RequestsOf("OptionB")[1].status_code = 401
    /\ raised.detail = "401 - unauthorized"

(* ----------------- the two modes that start from a script --------------- *)
\* run_pipeline.py started with a script: --audio-only calls
\* generate_audio_only and stops; without it run_full_pipeline calls
\* generate_audio_only and then continue_with_audio on the file of Option A.
\* the script stems and the script files the two modes are started with
PipelineStems == {<<"x">>, <<"x", "_audio", "_OptionB">>}

PipelineScripts == {<<" ">>, <<"[", "w", "]", " ", "w">>}

InitPipeline ==
    /\ pc = "p1_read"
    /\ invocations = 0
    /\ HEYGEN_API_KEY \in BOOLEAN
    /\ audio_exists = FALSE
    /\ skip_cloud = FALSE
    /\ upload_youtube = FALSE
    /\ now = 0
    /\ start_time = 0
    /\ total_steps = 0
    /\ current_step = 0
    /\ steps = <<>>
    /\ upload_result = NoUpload
    /\ upload_response = NoUploadResponse
    /\ create_calls = 0
    /\ video_id = NoVideoId
    /\ jobs = 0
    /\ wfv_start = 0
    /\ retry_count = 0
    /\ status_data = NoStatus
    /\ issued_at = 0
    /\ sleep_left = 0
    /\ history = <<>>
    /\ queries = 0
    /\ poll_sleeps = 0
    /\ backoff_sleeps = 0
    /\ downloads = 0
    /\ download_status = 0
    /\ video_file = FALSE
    /\ pub_failed = {}
    /\ result = NoResult
    /\ raised = NoException
    /\ name_pc = "idle"
    /\ given_stem \in PipelineStems
    /\ variant = None
    /\ audio_stem = <<>>
    /\ base_name = <<>>
    /\ selected_option = None
    /\ TagsIdle
    /\ mode \in {"audio_only", "full"}
    /\ ELEVENLABS_API_KEY \in BOOLEAN
    /\ ELEVENLABS_VOICE_ID = TRUE
    /\ DEFAULT_MODEL \in Models
    /\ script_file \in PipelineScripts
    /\ SynthesisIdle
    /\ ToolsIdle

\* variant: run_full_pipeline passes on the file of Option B
SelectedArtifact_OptionB(ar) == ar.audio_option_b

\* continue_with_audio(audio_result['audio_option_a'], ...)
SelectedArtifact(ar) == ar.audio_option_a

\* the variant an output path of Phase 1 is the file of
PathVariant(path) == IF path = OutputPath("OptionA") THEN "OptionA" ELSE "OptionB"

\* video_result = continue_with_audio(audio_result['audio_option_a'], ...,
\* skip_cloud=skip_cloud, upload_youtube=upload_youtube) in run_full_pipeline.
\* generate_audio_only has returned: its locals and those of the synthesis
\* calls are gone, the files and the dictionary it returned remain.
ContinueFull ==
    /\ pc = "p1_returned"
    /\ AutoContinue(mode)
    /\ invocations < MaxInvocations
    /\ invocations' = invocations + 1
    /\ audio_exists' = (SelectedArtifact(audio_result) \in out_files)
    /\ variant' = PathVariant(SelectedArtifact(audio_result))
    /\ audio_stem' = OutputStem(given_stem, PathVariant(SelectedArtifact(audio_result)))
    /\ base_name' = <<>>
    /\ selected_option' = None
    /\ \E sc \in BOOLEAN, yt \in BOOLEAN :
          /\ skip_cloud' = sc
          /\ upload_youtube' = yt
    /\ now' = 0
    /\ start_time' = 0
    /\ pc' = "validate"
    /\ UNCHANGED <<HEYGEN_API_KEY, total_steps, current_step, steps, upload_result, upload_response,
                   create_calls, video_id, jobs, pollerVars, downloads, download_status, video_file,
                   pub_failed, result, raised>>
    /\ script_text' = <<>>
    /\ tts_option' = None
    /\ tts_text' = <<>>
    /\ tts_model' = None
    /\ contains_tags' = FALSE
    /\ response' = NoResponse
    /\ requests' = <<>>
    /\ audio_results' = NoAudioResults
    /\ UNCHANGED <<configVars, tmp_files, out_files, audio_result>>
    /\ UNCHANGED <<name_pc, given_stem, tagVars, toolVars>>

NextPipeline ==
    \/ ReadScript
    \/ TtsEnter
    \/ FirstRequest
    \/ FallbackRequest
    \/ WriteAudio
    \/ SaveOutputs
    \/ ContinueFull
    \/ ValidateAudio
    \/ UploadAudio
    \/ CreateVideo
    \/ WaitStart
    \/ LoopTop
    \/ QueryRespond
    \/ SleepTick
    \/ DownloadVideo
    \/ BuildResult
    \/ DriveUpload
    \/ SheetsLog
    \/ SendEmail
    \/ YouTubeUpload

PipelineSpec == InitPipeline /\ [][NextPipeline]_vars

(* -------------------------- claims on Phase 1 --------------------------- *)
\* nothing of Phase 2 has happened: no audio upload, no render job created
\* or polled, no download, no publication
Phase2Untouched ==
    /\ invocations = 0
    /\ steps = <<>>
    /\ upload_result = NoUpload
    /\ upload_response = NoUploadResponse
    /\ create_calls = 0
    /\ video_id = NoVideoId
    /\ jobs = 0
    /\ queries = 0
    /\ history = <<>>
    /\ downloads = 0
    /\ download_status = 0
    /\ ~video_file
    /\ result = NoResult

\* C20: Phase 1 never uploads audio to the render vendor and never creates
\* or polls a render job, on any path; when it succeeds it has produced the
\* two audio outputs and then stops.
C20_Phase1StopsAfterAudio ==
    /\ [](mode = "audio_only" => (pc \in Phase1Positions /\ Phase2Untouched))
    /\ []((mode = "audio_only" /\ pc = "p1_returned") =>
             /\ out_files = {OutputPath("OptionA"), OutputPath("OptionB")}
             /\ audio_result.audio_option_a = OutputPath("OptionA")
             /\ audio_result.audio_option_b = OutputPath("OptionB")
             /\ raised = NoException)
    /\ [](pc \in Phase1Positions \ {"raised"} => Phase2Untouched)
    /\ [][~(mode = "audio_only" /\ pc \in {"p1_returned", "raised"})]_vars

C20_Witness ==
    /\ mode = "audio_only"
    /\ pc = "p1_returned"
    /\ Len(requests) = 3
    /\ out_files = {OutputPath("OptionA"), OutputPath("OptionB")}

(* ------------------- claims on the script and the modes ----------------- *)
\* generate_audio_only has read the script
ScriptRead == pc # "p1_read"

\* C21: in generate_audio_only an empty script is fatal before any
\* synthesis: when the text read is empty the call raises without sending a
\* synthesis request and without writing an audio file, so text_to_speech is
\* never called with an empty text by Phase 1.
C21_EmptyScriptIsFatal ==
    /\ (ScriptRead /\ script_text = <<>>) =>
          /\ pc = "raised"
          /\ raised = Exc("ValueError", "Script file is empty", "")
          /\ requests = <<>>
          /\ tmp_files = {}
          /\ out_files = {}
          /\ tts_option = None
          /\ audio_result = NoAudioResult
    /\ tts_option # None => script_text # <<>>
    /\ pc \in {"tts_request1", "tts_request2", "tts_write"} =>
          (Len(requests) >= 1 => requests[1].text # <<>>)
    /\ \A i \in DOMAIN requests :
          requests[i].model = DEFAULT_MODEL => requests[i].text # <<>>

C21_Witness ==
    /\ pc = "raised"
    /\ script_file = <<" ">>
    /\ script_text = <<>>
    /\ raised.msg = "Script file is empty"
    /\ requests = <<>>

\* C22: run_full_pipeline runs Phase 1 and then Phase 2 once each, starts
\* Phase 2 only when Phase 1 returned without error, always passes the file
\* of Option A to Phase 2, and the result it returns reports
\* selected_option = OptionA whatever the script is called.
C22_FullRunsBothOnce ==
    mode = "full" =>
       /\ invocations <= 1
       /\ audio_result = NoAudioResult => (invocations = 0 /\ Phase2Untouched)
       /\ pc \notin Phase1Positions => invocations = 1
       /\ (pc = "raised" /\ audio_result # NoAudioResult) => invocations = 1
       /\ invocations = 1 =>
             /\ audio_result # NoAudioResult
             /\ out_files = {OutputPath("OptionA"), OutputPath("OptionB")}
             /\ audio_exists
             /\ variant = "OptionA"
             /\ audio_stem = OutputStem(given_stem, "OptionA")
       /\ pc = "returned" =>
             /\ invocations = 1
             /\ create_calls = 1
             /\ result.selected_option = "OptionA"
             /\ result.video_path = VideoPath

C22_Witness ==
    /\ mode = "full"
    /\ pc = "returned"
    /\ given_stem = <<"x", "_audio", "_OptionB">>
    /\ result.selected_option = "OptionA"
    /\ invocations = 1

(* ---------------------- claims on the re-invocation --------------------- *)
CreateStep == pc = "create"

\* continue_with_audio leaves the audio file it was given and the files of
\* Phase 1 as they are
ArtifactsKept ==
    /\ out_files' = out_files
    /\ tmp_files' = tmp_files
    /\ invocations' = invocations =>
          (audio_exists' = audio_exists /\ audio_stem' = audio_stem)

\* C23 as stated: every invocation that passed the audio upload creates a
\* render job, so k such invocations create k jobs.
C23_Original == [][CreateStep => jobs' = jobs + 1]_vars

\* C23 amended: every invocation whose render request is accepted creates a
\* render job of its own, whatever earlier invocations did; an invocation
\* whose create_video call raises creates none; nothing else creates a job;
\* and no step of any invocation changes the audio file or a file of Phase 1.
C23_JobPerAcceptedRequest ==
    /\ [][(CreateStep /\ pc' = "wait_start") =>
             (jobs' = jobs + 1 /\ video_id' = jobs' /\ video_id' # video_id)]_vars
    /\ [][(CreateStep /\ pc' # "wait_start") => jobs' = jobs]_vars
    /\ [][~CreateStep => jobs' = jobs]_vars
    /\ [][ArtifactsKept]_vars
    /\ [](jobs <= invocations)
    /\ [](out_files = {OutputPath("OptionA"), OutputPath("OptionB")})

C23_Witness ==
    /\ invocations = 2
    /\ jobs = 2
    /\ video_id = 2
    /\ pc = "returned"

(* ======================================================================= *)
(* create_video (heygen_create_video.py) on its own                        *)
(* ======================================================================= *)

\* Python's truth value of a string or None
Truthy(x) == x \notin {None, Absent, ""}

AvatarValues == {None, "", "env_avatar"}
AvatarArgs == {None, "", "arg_avatar"}

\* the answers of the vendor: a status, and when the body is a JSON object
\* its "error" member, its "data" member and the "video_id" inside
CreateResponses ==
    [status_code : {200, 400}, json : {TRUE}, error : {Absent, None, "err"},
     data : {"absent", "null", "object"}, video_id : {Absent, None, "", "vid"}]
    \cup [status_code : {200, 400}, json : {FALSE}, error : {Absent},
          data : {"absent"}, video_id : {Absent}]

\* avatar = avatar_id or HEYGEN_AVATAR_ID
Avatar(avatar_id, env) == IF Truthy(avatar_id) THEN avatar_id ELSE env

\* result.get("data", {}).get("video_id") where data is an object or absent
VideoIdOf(resp) ==
    IF resp.data = "absent" \/ resp.video_id = Absent THEN None ELSE resp.video_id

CreateBranch_NoErrorCheck(resp) ==
    IF resp.status_code # 200 THEN "http_error"
    ELSE IF ~resp.json THEN "json_error"
    ELSE IF resp.data = "null" THEN "attribute_error"
    ELSE IF ~Truthy(VideoIdOf(resp)) THEN "no_video_id"
    ELSE "ok"

\* what create_video does with the answer, in the order of its checks
CreateBranch(resp) ==
    IF resp.status_code # 200 THEN "http_error"
    ELSE IF ~resp.json THEN "json_error"
    ELSE IF Truthy(resp.error) THEN "error_field"
    ELSE IF resp.data = "null" THEN "attribute_error"
    ELSE IF ~Truthy(VideoIdOf(resp)) THEN "no_video_id"
    ELSE "ok"

CreateError(branch) ==
    CASE branch = "http_error" -> Exc("Exception", "HeyGen video generation error", "")
      [] branch = "json_error" -> Exc("JSONDecodeError", "", "")
      [] branch = "error_field" -> Exc("Exception", "HeyGen video generation failed", "")
      [] branch = "attribute_error" -> Exc("AttributeError", "", "")
      [] branch = "no_video_id" -> Exc("Exception", "No video_id returned", "")

createFrame == <<phase2Vars, nameVars, tagVars, phase1Vars, ytVars, cliVars, sheetVars,
                appVars>>

InitCreate ==
    /\ pc = "idle"
    /\ HEYGEN_API_KEY \in BOOLEAN
    /\ Phase2Quiet
    /\ NamesIdle
    /\ TagsIdle
    /\ Phase1Idle
    /\ UploadIdle
    /\ CliIdle
    /\ SheetIdle
    /\ AppIdle
    /\ cv_pc = "enter"
    /\ HEYGEN_AVATAR_ID \in AvatarValues
    /\ cv_avatar_id \in AvatarArgs
    /\ cv_response = NoCreateResponse
    /\ cv_sent = 0
    /\ cv_result = None
    /\ cv_raised = NoException

\* the two checks and requests.post
CreateEnter ==
    /\ cv_pc = "enter"
    /\ IF ~HEYGEN_API_KEY
          THEN /\ cv_pc' = "raised"
               /\ cv_raised' = Exc("ValueError", "HEYGEN_API_KEY not found", "")
               /\ UNCHANGED cv_sent
          ELSE IF ~Truthy(Avatar(cv_avatar_id, HEYGEN_AVATAR_ID))
                  THEN /\ cv_pc' = "raised"
                       /\ cv_raised' = Exc("ValueError", "Avatar ID not provided", "")
                       /\ UNCHANGED cv_sent
                  ELSE /\ cv_pc' = "posted"
                       /\ cv_sent' = cv_sent + 1
                       /\ UNCHANGED cv_raised
    /\ UNCHANGED <<HEYGEN_AVATAR_ID, cv_avatar_id, cv_response, cv_result>>
    /\ UNCHANGED createFrame

\* the answer arrives and is examined
CreateRespond ==
    /\ cv_pc = "posted"
    /\ \E resp \in CreateResponses :
          /\ cv_response' = resp
          /\ IF CreateBranch(resp) = "ok"
                THEN /\ cv_pc' = "returned"
                     /\ cv_result' = VideoIdOf(resp)
                     /\ UNCHANGED cv_raised
                ELSE /\ cv_pc' = "raised"
                     /\ cv_raised' = CreateError(CreateBranch(resp))
                     /\ UNCHANGED cv_result
    /\ UNCHANGED <<HEYGEN_AVATAR_ID, cv_avatar_id, cv_sent>>
    /\ UNCHANGED createFrame

CreateNext == CreateEnter \/ CreateRespond

CreateSpec == InitCreate /\ [][CreateNext]_vars

(* ------------------------- claims on create_video ----------------------- *)
CreateEnded == cv_pc \in {"returned", "raised"}

\* the configuration checks of create_video: a missing credential or avatar
\* raises ValueError and no request has been sent; the call never returns
\* None or an empty string
CreateGuards ==
    /\ (CreateEnded /\ (~HEYGEN_API_KEY \/ ~Truthy(Avatar(cv_avatar_id, HEYGEN_AVATAR_ID)))) =>
          /\ cv_pc = "raised"
          /\ cv_raised.type = "ValueError"
          /\ cv_sent = 0
    /\ cv_pc = "returned" => (Truthy(cv_result) /\ cv_sent = 1 /\ cv_raised = NoException)
    /\ cv_pc # "returned" => cv_result = None
    /\ cv_pc = "raised" <=> cv_raised # NoException

\* C24 as stated: an id is returned only when the payload has no error
\* field, and every payload with an error field under HTTP 200 raises.
C24_Original ==
    /\ cv_pc = "returned" => cv_response.error = Absent
    /\ (cv_sent = 1 /\ CreateEnded /\ cv_response.status_code = 200
          /\ cv_response.json /\ cv_response.error # Absent) => cv_pc = "raised"

\* C24 amended: create_video returns a job id only if the vendor answered
\* HTTP 200 with a JSON object whose error member is absent, null or empty
\* and whose data holds a non-empty video_id, and the id returned is that
\* video_id; an error member with a value under HTTP 200 makes it raise; a
\* missing credential or avatar makes it raise before any request is sent;
\* it never returns a null or empty id.
C24_ReturnsOnlyAcceptedJob ==
    /\ CreateGuards
    /\ cv_pc = "returned" =>
          /\ cv_response.status_code = 200
          /\ cv_response.json
          /\ ~Truthy(cv_response.error)
          /\ cv_response.data = "object"
          /\ Truthy(cv_response.video_id)
          /\ cv_result = cv_response.video_id
    /\ (cv_sent = 1 /\ CreateEnded /\ cv_response.status_code = 200
          /\ cv_response.json /\ Truthy(cv_response.error)) =>
             (cv_pc = "raised" /\ cv_raised.msg = "HeyGen video generation failed")

C24_Witness ==
    /\ cv_pc = "raised"
    /\ cv_response.status_code = 200
    /\ cv_response.error = "err"
    /\ cv_response.video_id = "vid"
    /\ cv_response.data = "object"

(* ======================================================================= *)
(* upload_video (youtube_upload.py) on its own                             *)
(* ======================================================================= *)

\* the longest file, in chunks of 1 MB
MaxChunks == 2

MAX_RETRIES == 10
RETRIABLE_STATUS_CODES == {500, 502, 503, 504}

\* the statuses an HttpError of next_chunk() can carry
HttpStatuses == RETRIABLE_STATUS_CODES \cup {400, 403}

\* how a call of request.next_chunk() can end
ChunkOutcomes ==
    [kind : {"accepted", "RetriableException", "OtherException"}, status : {0}]
    \cup [kind : {"HttpError"}, status : HttpStatuses]

Retriable_AnyHttpError(outcome) ==
    \/ outcome.kind = "HttpError"
    \/ outcome.kind = "RetriableException"

\* the failures the except clauses retry
Retriable(outcome) ==
    \/ outcome.kind = "HttpError" /\ outcome.status \in RETRIABLE_STATUS_CODES
    \/ outcome.kind = "RetriableException"

UploadRetriesExhausted_OffByOne(count) == count >= MAX_RETRIES

\* if retry_count > MAX_RETRIES, after retry_count += 1
UploadRetriesExhausted(count) == count > MAX_RETRIES

\* sleep_seconds = 2 ** retry_count
BackoffSeconds(count) == 2 ^ count

uploadFrame == <<phase2Vars, nameVars, tagVars, phase1Vars, createVars, cliVars, sheetVars,
                appVars>>

InitUpload ==
    /\ pc = "idle"
    /\ Phase2Idle
    /\ NamesIdle
    /\ TagsIdle
    /\ Phase1Idle
    /\ CreateIdle
    /\ CliIdle
    /\ SheetIdle
    /\ AppIdle
    /\ yt_pc = "enter"
    /\ yt_exists \in BOOLEAN
    /\ yt_chunks_left \in 1..MaxChunks
    /\ yt_retry_count = 0
    /\ yt_attempts = 0
    /\ yt_last = NoChunk
    /\ yt_sleeps = <<>>
    /\ yt_response = None
    /\ yt_raised = NoException

\* the existence check, then response = None and retry_count = 0
UploadEnter ==
    /\ yt_pc = "enter"
    /\ IF ~yt_exists
          THEN /\ yt_pc' = "raised"
               /\ yt_raised' = Exc("FileNotFoundError", "Video file not found", "")
          ELSE /\ yt_pc' = "loop"
               /\ UNCHANGED yt_raised
    /\ UNCHANGED <<yt_exists, yt_chunks_left, yt_retry_count, yt_attempts, yt_last,
                   yt_sleeps, yt_response>>
    /\ UNCHANGED uploadFrame

\* variant: an accepted chunk starts the retry count afresh
RetryCountOnChunk_Reset(rc) == 0

\* the try body assigns status and response only: retry_count is left as it
\* is when next_chunk() returns
RetryCountOnChunk(rc) == rc

\* one pass of 'while response is None': next_chunk() and its except clauses
NextChunk ==
    /\ yt_pc = "loop"
    /\ \E outcome \in ChunkOutcomes :
          /\ yt_attempts' = yt_attempts + 1
          /\ yt_last' = outcome
          /\ IF outcome.kind = "accepted"
                THEN /\ yt_chunks_left' = yt_chunks_left - 1
                     /\ IF yt_chunks_left' = 0
                           THEN yt_pc' = "returned" /\ yt_response' = "id"
                           ELSE yt_pc' = "loop" /\ UNCHANGED yt_response
                     /\ yt_retry_count' = RetryCountOnChunk(yt_retry_count)
                     /\ UNCHANGED <<yt_sleeps, yt_raised>>
                ELSE IF Retriable(outcome)
                        THEN /\ yt_retry_count' = yt_retry_count + 1
                             /\ IF UploadRetriesExhausted(yt_retry_count')
                                   THEN /\ yt_pc' = "raised"
                                        /\ yt_raised' = Exc("Exception", "Maximum retries exceeded", "")
                                        /\ UNCHANGED yt_sleeps
                                   ELSE /\ yt_pc' = "loop"
                                        /\ yt_sleeps' = Append(yt_sleeps, BackoffSeconds(yt_retry_count'))
                                        /\ UNCHANGED yt_raised
                             /\ UNCHANGED <<yt_chunks_left, yt_response>>
                        ELSE /\ yt_pc' = "raised"
                             /\ yt_raised' = Exc(outcome.kind, "", "")
                             /\ UNCHANGED <<yt_chunks_left, yt_retry_count, yt_sleeps, yt_response>>
    /\ UNCHANGED yt_exists
    /\ UNCHANGED uploadFrame

UploadNext == UploadEnter \/ NextChunk

UploadSpec == InitUpload /\ [][UploadNext]_vars

\* the call goes on as long as it has a step to take
UploadLive == UploadSpec /\ WF_vars(UploadNext)

(* ------------------------- claims on upload_video ----------------------- *)
UploadEnded == yt_pc \in {"returned", "raised"}

\* a step in which next_chunk() failed in the way given
ChunkFailed(retriable) ==
    /\ yt_attempts' = yt_attempts + 1
    /\ yt_last'.kind # "accepted"
    /\ retriable <=> \/ yt_last'.kind = "RetriableException"
                     \/ yt_last'.kind = "HttpError" /\ yt_last'.status \in {500, 502, 503, 504}

\* C25: a retriable failure of next_chunk() is followed by a sleep of 2^k
\* seconds at the k-th retry of the call and another attempt, for k up to
\* 10; the 11th retriable failure raises; every call of upload_video ends
\* with a response or an exception.
C25_BoundedBackoff ==
    /\ [][(ChunkFailed(TRUE) /\ yt_retry_count < MAX_RETRIES) =>
             /\ yt_retry_count' = yt_retry_count + 1
             /\ yt_sleeps' = Append(yt_sleeps, 2 ^ yt_retry_count')
             /\ yt_pc' = "loop"]_vars
    /\ [][(ChunkFailed(TRUE) /\ yt_retry_count >= MAX_RETRIES) =>
             /\ yt_pc' = "raised"
             /\ yt_raised'.msg = "Maximum retries exceeded"
             /\ yt_sleeps' = yt_sleeps]_vars
    /\ [](/\ Len(yt_sleeps) <= MAX_RETRIES
          /\ \A k \in 1..Len(yt_sleeps) : yt_sleeps[k] = 2 ^ k)
    /\ [](yt_pc = "returned" => (yt_response # None /\ yt_raised = NoException))
    /\ [](yt_pc = "raised" => (yt_response = None /\ yt_raised # NoException))
    /\ <>UploadEnded

C25_Witness ==
    /\ yt_pc = "raised"
    /\ yt_raised.msg = "Maximum retries exceeded"
    /\ Len(yt_sleeps) = MAX_RETRIES
    /\ yt_sleeps[MAX_RETRIES] = 1024
    /\ yt_attempts > MAX_RETRIES + 1

\* C26: an HttpError of next_chunk() whose status is not 500, 502, 503 or
\* 504 is re-raised at once, whatever retry_count is: no sleep, no change of
\* retry_count, and no further call of next_chunk().
C26_OtherHttpErrorIsFatal ==
    /\ [][(ChunkFailed(FALSE) /\ yt_last'.kind = "HttpError") =>
             /\ yt_pc' = "raised"
             /\ yt_raised'.type = "HttpError"
             /\ yt_sleeps' = yt_sleeps
             /\ yt_retry_count' = yt_retry_count]_vars
    /\ [][yt_pc = "raised" => (yt_attempts' = yt_attempts /\ yt_sleeps' = yt_sleeps)]_vars

C26_Witness ==
    /\ yt_pc = "raised"
    /\ yt_raised.type = "HttpError"
    /\ yt_last.status = 403
    /\ yt_retry_count = 3
    /\ Len(yt_sleeps) = 3

(* ======================================================================= *)
(* main (run_pipeline.py): the command-line entry point                    *)
(* ======================================================================= *)

\* if args.continue_audio: ... elif args.audio_only: ... else: ...
SelectedMode(continue_audio, audio_only) ==
    IF continue_audio THEN "continue"
    ELSE IF audio_only THEN "audio_only"
    ELSE "full"

\* the checks of main before the function of the mode is called
InputsPresent(m, audio_there, script_given, script_there) ==
    IF m = "continue" THEN audio_there ELSE script_given /\ script_there

\* the function of the mode has returned to main
ModeReturned(m, p) ==
    IF m = "audio_only" THEN p = "p1_returned" ELSE p = "returned"

\* variant: the except clause of main ends the process with code 0
ExitCode_AlwaysZero(p) == 0

\* except Exception: ... sys.exit(1); falling off the end of main is code 0
ExitCode(p) == IF p = "raised" THEN 1 ELSE 0

CliStems == {<<"x">>}

InitCli ==
    /\ pc = "idle"
    /\ invocations = 0
    /\ HEYGEN_API_KEY \in BOOLEAN
    /\ args_continue_audio \in BOOLEAN
    /\ args_audio_only \in BOOLEAN
    /\ args_script \in BOOLEAN
    /\ script_exists \in (IF args_script /\ ~args_continue_audio THEN BOOLEAN ELSE {FALSE})
    /\ audio_exists \in (IF args_continue_audio THEN BOOLEAN ELSE {FALSE})
    /\ skip_cloud = FALSE
    /\ upload_youtube = FALSE
    /\ now = 0
    /\ start_time = 0
    /\ total_steps = 0
    /\ current_step = 0
    /\ steps = <<>>
    /\ upload_result = NoUpload
    /\ upload_response = NoUploadResponse
    /\ create_calls = 0
    /\ video_id = NoVideoId
    /\ jobs = 0
    /\ wfv_start = 0
    /\ retry_count = 0
    /\ status_data = NoStatus
    /\ issued_at = 0
    /\ sleep_left = 0
    /\ history = <<>>
    /\ queries = 0
    /\ poll_sleeps = 0
    /\ backoff_sleeps = 0
    /\ downloads = 0
    /\ download_status = 0
    /\ video_file = FALSE
    /\ pub_failed = {}
    /\ result = NoResult
    /\ raised = NoException
    /\ name_pc = "idle"
    /\ given_stem \in CliStems
    /\ variant = None
    /\ audio_stem = <<>>
    /\ base_name = <<>>
    /\ selected_option = None
    /\ TagsIdle
    /\ mode = SelectedMode(args_continue_audio, args_audio_only)
    /\ ELEVENLABS_API_KEY \in BOOLEAN
    /\ ELEVENLABS_VOICE_ID = TRUE
    /\ DEFAULT_MODEL = "eleven_v3"
    /\ script_file \in PipelineScripts
    /\ SynthesisIdle
    /\ CreateIdle
    /\ UploadIdle
    /\ SheetIdle
    /\ AppIdle
    /\ cli_pc = "parsed"
    /\ exit_code = NoExit

\* the branch of main for the mode: sys.exit(1) when an input is missing,
\* else the call of continue_with_audio, generate_audio_only or
\* run_full_pipeline
CliDispatch ==
    /\ cli_pc = "parsed"
    /\ IF ~InputsPresent(mode, audio_exists, args_script, script_exists)
          THEN /\ cli_pc' = "exited"
               /\ exit_code' = 1
               /\ UNCHANGED <<pc, invocations, skip_cloud, upload_youtube, audio_stem>>
          ELSE /\ cli_pc' = "running"
               /\ UNCHANGED exit_code
               /\ IF mode = "continue"
                     THEN /\ pc' = "validate"
                          /\ invocations' = invocations + 1
                          /\ \E sc \in BOOLEAN, yt \in BOOLEAN :
                                /\ skip_cloud' = sc
                                /\ upload_youtube' = yt
                          /\ \E stem \in GivenAudioStems : audio_stem' = stem
                     ELSE /\ pc' = "p1_read"
                          /\ UNCHANGED <<invocations, skip_cloud, upload_youtube, audio_stem>>
    /\ UNCHANGED <<HEYGEN_API_KEY, audio_exists, now, start_time, total_steps, current_step,
                   steps, upload_result, upload_response, create_calls, video_id, jobs, pollerVars, downloads, download_status,
                   video_file, pub_failed, result, raised>>
    /\ UNCHANGED <<name_pc, given_stem, variant, base_name, selected_option>>
    /\ UNCHANGED <<args_continue_audio, args_audio_only, args_script, script_exists>>
    /\ UNCHANGED <<tagVars, phase1Vars, createVars, ytVars, sheetVars, appVars>>

\* the function of the mode has returned or raised: main prints and ends
CliFinish ==
    /\ cli_pc = "running"
    /\ pc = "raised" \/ ModeReturned(mode, pc)
    /\ cli_pc' = "exited"
    /\ exit_code' = ExitCode(pc)
    /\ UNCHANGED <<args_continue_audio, args_audio_only, args_script, script_exists>>
    /\ UNCHANGED <<phase2Vars, nameVars, tagVars, phase1Vars, createVars, ytVars, sheetVars,
                   appVars>>

NextCli ==
    \/ CliDispatch
    \/ CliFinish
    \/ ReadScript
    \/ TtsEnter
    \/ FirstRequest
    \/ FallbackRequest
    \/ WriteAudio
    \/ SaveOutputs
    \/ ContinueFull
    \/ ValidateAudio
    \/ UploadAudio
    \/ CreateVideo
    \/ WaitStart
    \/ LoopTop
    \/ QueryRespond
    \/ SleepTick
    \/ DownloadVideo
    \/ BuildResult
    \/ DriveUpload
    \/ SheetsLog
    \/ SendEmail
    \/ YouTubeUpload

CliSpec == InitCli /\ [][NextCli]_vars

(* ----------------------------- claims on main --------------------------- *)
Exited == cli_pc = "exited"

\* the function of the selected mode was called and came back without an
\* exception
FunctionReturned ==
    /\ raised = NoException
    /\ \/ mode = "audio_only" /\ pc = "p1_returned"
       \/ mode \in {"continue", "full"} /\ pc = "returned"

\* the file the selected mode needs is not there
InputMissing ==
    \/ mode = "continue" /\ ~audio_exists /\ invocations = 0
    \/ mode # "continue" /\ ~(args_script /\ script_exists)

\* C27: once the arguments are parsed and a mode is selected, the process
\* ends with code 0 exactly when the function of the selected mode returned
\* without raising, publication warnings or not, and
\* with code 1 when an exception escaped that function or when the audio
\* file or the script file the mode needs is missing.
C27_ExitCodes ==
    /\ Exited => exit_code \in {0, 1}
    /\ ~Exited => exit_code = NoExit
    /\ exit_code = 0 <=> (Exited /\ FunctionReturned)
    /\ (Exited /\ pc = "raised") => (exit_code = 1 /\ raised # NoException)
    /\ (Exited /\ InputMissing) => (exit_code = 1 /\ pc = "idle" /\ invocations = 0)

C27_Witness ==
    /\ Exited
    /\ exit_code = 0
    /\ mode = "continue"
    /\ pub_failed # {}
    /\ result.video_path = VideoPath

(* ======================================================================= *)
(* log_video_generation (google_sheets_logger.py) on its own               *)
(* ======================================================================= *)

\* the longest run of log calls in one process
MaxLogCalls == 3

\* the sheet of GOOGLE_SHEET_ID when the process starts with one configured
ConfiguredSheet == 100

\* how service.spreadsheets().get(spreadsheetId=SHEET_ID).execute() ends
VerifyOutcomes == {"ok", "failed"}

\* how far create_spreadsheet and the saving of the identifier get: the
\* create request fails, add_headers fails, format_header fails, set_key
\* fails, or all of them pass
CreateOutcomes == {"create_failed", "headers_failed", "format_failed", "save_failed", "ok"}

\* variant: every call provisions a sheet
NeedsCreate_Always(sheet_id, verify) == TRUE

\* get_or_create_sheet goes on to create_spreadsheet: nothing configured,
\* or the verification raised
NeedsCreate(sheet_id, verify) == sheet_id = NoSheet \/ verify = "failed"

\* result.get('spreadsheetId') of a new spreadsheet
NewSheetId(existing) == Cardinality(existing \ {ConfiguredSheet}) + 1

sheetFrame == <<phase2Vars, nameVars, tagVars, phase1Vars, createVars, ytVars, cliVars,
               appVars>>

InitSheet ==
    /\ pc = "idle"
    /\ Phase2Idle
    /\ NamesIdle
    /\ TagsIdle
    /\ Phase1Idle
    /\ CreateIdle
    /\ UploadIdle
    /\ CliIdle
    /\ AppIdle
    /\ sh_pc = "idle"
    /\ SHEET_ID \in {NoSheet, ConfiguredSheet}
    /\ env_exists \in BOOLEAN
    /\ env_sheet_id = (IF env_exists THEN SHEET_ID ELSE NoSheet)
    /\ sheets = (IF SHEET_ID = NoSheet THEN {} ELSE {SHEET_ID})
    /\ with_headers = sheets
    /\ sh_calls = 0
    /\ sh_verify = "none"
    /\ sh_sheet_id = NoSheet
    /\ sh_rows = <<>>
    /\ sh_raised = NoException

\* log_video_generation up to 'sheet_id, sheet_link = get_or_create_sheet()'
GetOrCreateSheet ==
    /\ sh_pc = "idle"
    /\ sh_calls < MaxLogCalls
    /\ sh_calls' = sh_calls + 1
    /\ \E verify \in (IF SHEET_ID = NoSheet THEN {"skipped"} ELSE VerifyOutcomes),
          created \in CreateOutcomes :
          /\ sh_verify' = verify
          /\ IF ~NeedsCreate(SHEET_ID, verify)
                THEN /\ sh_sheet_id' = SHEET_ID
                     /\ sh_pc' = "append"
                     /\ sh_raised' = NoException
                     /\ UNCHANGED <<SHEET_ID, env_sheet_id, sheets, with_headers>>
                ELSE /\ sheets' = IF created = "create_failed"
                                     THEN sheets
                                     ELSE sheets \cup {NewSheetId(sheets)}
                     /\ with_headers' = IF created \in {"create_failed", "headers_failed"}
                                           THEN with_headers
                                           ELSE with_headers \cup {NewSheetId(sheets)}
                     /\ SHEET_ID' = IF created \in {"save_failed", "ok"}
                                       THEN NewSheetId(sheets)
                                       ELSE SHEET_ID
                     /\ env_sheet_id' = IF created = "ok" /\ env_exists
                                           THEN NewSheetId(sheets)
                                           ELSE env_sheet_id
                     /\ IF created = "ok" \/ (created = "save_failed" /\ ~env_exists)
                           THEN /\ sh_sheet_id' = NewSheetId(sheets)
                                /\ sh_pc' = "append"
                                /\ sh_raised' = NoException
                           ELSE /\ sh_sheet_id' = NoSheet
                                /\ sh_pc' = "idle"
                                /\ sh_raised' = Exc("Exception", created, "")
    /\ UNCHANGED <<env_exists, sh_rows>>
    /\ UNCHANGED sheetFrame

\* service.spreadsheets().values().append(spreadsheetId=sheet_id, ...)
AppendRow ==
    /\ sh_pc = "append"
    /\ \E ok \in BOOLEAN :
          IF ok
             THEN /\ sh_rows' = Append(sh_rows, sh_sheet_id)
                  /\ sh_raised' = NoException
             ELSE /\ sh_raised' = Exc("Exception", "append_failed", "")
                  /\ UNCHANGED sh_rows
    /\ sh_pc' = "idle"
    /\ UNCHANGED <<SHEET_ID, env_exists, env_sheet_id, sheets, with_headers, sh_calls,
                   sh_verify, sh_sheet_id>>
    /\ UNCHANGED sheetFrame

NextSheet == GetOrCreateSheet \/ AppendRow

SheetSpec == InitSheet /\ [][NextSheet]_vars

(* ------------------------ claims on the sheet log ------------------------ *)
\* a step in which get_or_create_sheet returned to log_video_generation
SheetObtained == sh_pc = "idle" /\ sh_pc' = "append"

DownloadRefused ==
    /\ pc = "download"
    /\ downloads' = downloads + 1
    /\ raised'.msg = "Download error"

\* C29: wait_and_download sends at most one download request, and only
\* once the last status query answered 'completed'; a download answered
\* with a status other than 200 raises at once: the request is not sent
\* again, the status is not queried again and the output file is neither
\* created nor written.
C29_OneDownloadNoRetry ==
    /\ [](downloads <= 1)
    /\ [](downloads = 1 =>
            /\ status_data.status = "completed"
            /\ LastQuery.class = "completed"
            /\ status_data.video_url = VideoUrl)
    /\ [][DownloadRefused =>
             /\ pc' = "raised"
             /\ raised'.detail \in {"404", "500"}
             /\ video_file' = FALSE
             /\ queries' = queries
             /\ history' = history]_vars
    /\ [][(pc = "raised" /\ raised.msg = "Download error") =>
             (downloads' = downloads /\ queries' = queries /\ video_file' = video_file)]_vars
    /\ [](video_file => (downloads = 1 /\ download_status = 200))
    /\ []((downloads = 1 /\ download_status # 200) =>
            (pc = "raised" /\ raised.msg = "Download error" /\ ~video_file))

C29_Witness ==
    /\ pc = "raised"
    /\ raised.msg = "Download error"
    /\ raised.detail = "404"
    /\ download_status = 404
    /\ downloads = 1
    /\ ~video_file
    /\ queries > 1

(* --------------------- claims on the backoff of the poller -------------- *)
\* a step in which the answer to a status query arrived, of the class given
Answered(class) ==
    /\ pc = "query"
    /\ Len(history') = Len(history) + 1
    /\ history'[Len(history')].class = class

\* C30: a network failure of the status query that leaves retry_count
\* below max_retries is followed by a sleep of 5 seconds, at the first retry
\* and at the second alike and whatever poll_interval is, after which the
\* loop goes back to its top, where the status is queried again unless the
\* deadline has passed; a non-terminal status is followed by a sleep of
\* poll_interval seconds and never by the backoff.
C30_FixedBackoff ==
    /\ [][(Answered("network") /\ retry_count + 1 < 3) =>
             /\ pc' = "backoff_sleep"
             /\ sleep_left' = 5
             /\ backoff_sleeps' = backoff_sleeps + 1
             /\ poll_sleeps' = poll_sleeps]_vars
    /\ [][Answered("nonterminal") =>
             /\ pc' = "poll_sleep"
             /\ sleep_left' = 10
             /\ poll_sleeps' = poll_sleeps + 1
             /\ backoff_sleeps' = backoff_sleeps]_vars
    /\ [][(Asleep /\ pc' # pc) => (pc' = "loop" /\ sleep_left' = 0)]_vars
    /\ [][(Asleep /\ pc' = pc) => sleep_left' = sleep_left - 1]_vars
    /\ [][pc = "loop" =>
             \/ pc' = "query" /\ queries' = queries + 1
             \/ pc' = "raised" /\ raised'.type \in {"TimeoutError", "ValueError"}]_vars
    /\ [](pc = "backoff_sleep" => (LastQuery.class = "network" /\ retry_count \in {1, 2}))
    /\ [](pc = "poll_sleep" => (LastQuery.class = "nonterminal" /\ retry_count = 0))

C30_Witness ==
    /\ pc = "query"
    /\ retry_count = 2
    /\ backoff_sleeps = 2
    /\ poll_sleeps = 1
    /\ Len(history) = 3
    /\ history[2].class = "network"
    /\ history[3].class = "network"
    /\ issued_at - history[3].arrived = 5
    /\ history[3].arrived - history[3].issued <= MaxQueryDur

(* ----------------------- claims on the download URL --------------------- *)
\* C31: when the 'completed' status data has no video_url (absent or null),
\* wait_and_download raises 'No video URL in completed status' and sends no
\* download request; the video file exists only after a download request
\* that was answered with 200 for a URL that was there.
C31_NoUrlNoDownload ==
    /\ [][(pc = "download" /\ status_data.video_url \in {Absent, None}) =>
             /\ pc' = "raised"
             /\ raised'.msg = "No video URL in completed status"
             /\ downloads' = downloads
             /\ download_status' = 0
             /\ video_file' = FALSE]_vars
    /\ [](downloads = 1 => status_data.video_url = VideoUrl)
    /\ [](video_file =>
            /\ downloads = 1
            /\ download_status = 200
            /\ status_data.status = "completed"
            /\ status_data.video_url = VideoUrl)
    /\ [](raised.msg = "No video URL in completed status" =>
            (LastQuery.class = "completed" /\ downloads = 0 /\ ~video_file))

C31_Witness ==
    /\ pc = "raised"
    /\ raised.msg = "No video URL in completed status"
    /\ status_data.status = "completed"
    /\ status_data.video_url = None
    /\ downloads = 0
    /\ queries > 1

(* ------------------------ claims on the step count ---------------------- *)
\* C32 as stated: total_steps is 3, plus 3 with the cloud steps, plus 1 with
\* the YouTube upload; every step number announced lies in 1..total_steps
\* and is one more than the number announced before it; and on every
\* invocation that returns, the last number announced is total_steps.
C32_StepCounting ==
    /\ [](total_steps # 0 =>
            total_steps = 3 + (IF skip_cloud THEN 0 ELSE 3) + (IF upload_youtube THEN 1 ELSE 0))
    /\ [](current_step # 0 => (1 <= current_step /\ current_step <= total_steps))
    /\ [][(current_step' # current_step /\ invocations' = invocations) =>
             current_step' = current_step + 1]_vars
    /\ [](pc = "returned" => current_step = total_steps)

(* ------------- upload_audio, alone and under continue_with_audio -------- *)
\* Either continue_with_audio(audio_path, skip_cloud=True) is entered
\* (invocations = 1), or upload_audio(audio_path) is called on its own, as the
\* command line of heygen_upload_audio.py does (invocations = 0).  The audio
\* file and the API key may each be missing.
InitAudioUpload ==
    /\ \E direct \in BOOLEAN :
         /\ pc = IF direct THEN "upload" ELSE "validate"
         /\ invocations = IF direct THEN 0 ELSE 1
    /\ HEYGEN_API_KEY \in BOOLEAN
    /\ audio_exists \in BOOLEAN
    /\ skip_cloud = TRUE
    /\ upload_youtube = FALSE
    /\ now = 0
    /\ start_time = 0
    /\ total_steps = 0
    /\ current_step = 0
    /\ steps = <<>>
    /\ upload_result = NoUpload
    /\ upload_response = NoUploadResponse
    /\ create_calls = 0
    /\ video_id = NoVideoId
    /\ jobs = 0
    /\ wfv_start = 0
    /\ retry_count = 0
    /\ status_data = NoStatus
    /\ issued_at = 0
    /\ sleep_left = 0
    /\ history = <<>>
    /\ queries = 0
    /\ poll_sleeps = 0
    /\ backoff_sleeps = 0
    /\ downloads = 0
    /\ download_status = 0
    /\ video_file = FALSE
    /\ pub_failed = {}
    /\ result = NoResult
    /\ raised = NoException
    /\ NamesIdle
    /\ TagsIdle
    /\ Phase1Reviewed
    /\ ToolsIdle

\* the steps of continue_with_audio that follow the upload; a direct call of
\* upload_audio ends with its return
AfterUploadAudio ==
    /\ invocations > 0
    /\ \/ CreateVideo
       \/ WaitStart
       \/ LoopTop
       \/ QueryRespond
       \/ SleepTick
       \/ DownloadVideo
       \/ BuildResult

NextAudioUpload ==
    \/ ValidateAudio
    \/ UploadAudio
    \/ AfterUploadAudio

AudioUploadSpec == InitAudioUpload /\ [][NextAudioUpload]_vars

(* --------------------------- claims on upload_audio --------------------- *)
\* upload_audio was called on its own and has ended
UploadAudioEnded == invocations = 0 /\ pc # "upload"

\* an asset id is returned only for an answer with HTTP 200 and code 100, and
\* a request is answered only when key and file are there
AssetOnlyOnSuccess ==
    /\ upload_result # NoUpload =>
         (upload_response.status_code = 200 /\ upload_response.code = 100)
    /\ upload_response # NoUploadResponse => (HEYGEN_API_KEY /\ audio_exists)

\* a missing audio file causes no upload request, no render job and no poll,
\* and continue_with_audio ends at its own check, before step 1
MissingFileNoRemoteCall ==
    ~audio_exists =>
        /\ upload_response = NoUploadResponse
        /\ create_calls = 0
        /\ jobs = 0
        /\ queries = 0
        /\ downloads = 0
        /\ invocations > 0 => steps = <<>>
        /\ (invocations > 0 /\ pc # "validate") =>
               (pc = "raised" /\ raised.type = "FileNotFoundError")

\* C33 as stated: upload_audio returns an asset id only on HTTP 200 with the
\* success code; with a missing audio path it raises the not-found error and
\* sends no request; a missing audio file causes no upload, job or poll
C33_Original ==
    /\ AssetOnlyOnSuccess
    /\ MissingFileNoRemoteCall
    /\ (UploadAudioEnded /\ ~audio_exists) => raised.type = "FileNotFoundError"

\* C33: upload_audio returns an asset id only on HTTP 200 with the success
\* code; a missing audio file never causes an upload request, a render job or
\* a poll; upload_audio called with a missing path raises the not-found error
\* when the API key is configured, and the key error (the key is looked at
\* first) when it is not
C33_MissingAudioNoRemoteCall ==
    /\ AssetOnlyOnSuccess
    /\ MissingFileNoRemoteCall
    /\ (UploadAudioEnded /\ ~audio_exists) =>
           /\ pc = "raised"
           /\ raised.type = IF HEYGEN_API_KEY THEN "FileNotFoundError" ELSE "ValueError"

\* upload_audio called with a configured key and a missing path has raised
\* the not-found error
C33_Witness ==
    /\ UploadAudioEnded
    /\ ~audio_exists
    /\ HEYGEN_API_KEY
    /\ raised.type = "FileNotFoundError"
    /\ upload_response = NoUploadResponse

(* ---------------------- claims on the retry counter --------------------- *)
NetworkFailureCount == Cardinality({i \in DOMAIN history : history[i].class = "network"})

\* wait_for_video is in its loop, a status query sent or about to be
InWaitLoop == pc \in {"loop", "query", "poll_sleep", "backoff_sleep"}

\* C34: at every status query the retry counter is 0, 1 or 2 and equals the
\* number of network failures since the last successful query.  Only
\* consecutive failures count: a network failure is raised only as the third
\* in a row, whatever the total number of network failures was.
C34_ConsecutiveFailuresOnly ==
    /\ InWaitLoop =>
          /\ retry_count \in {0, 1, 2}
          /\ retry_count = TrailingFailures(history)
    /\ (pc = "raised" /\ raised.type \in NetworkFailures) =>
          /\ TrailingFailures(history) = 3
          /\ retry_count = 3
    /\ (NetworkFailureCount >= 3 /\ TrailingFailures(history) < 3) =>
          ~(pc = "raised" /\ raised.type \in NetworkFailures)

\* the fourth query was the third network failure in all, after two in a row
\* and a successful query: the call goes on and the counter stands at 1
C34_Witness ==
    /\ pc = "backoff_sleep"
    /\ NetworkFailureCount = 3
    /\ retry_count = 1
    /\ Len(history) = 4

(* ------------------ claims on what the poller retries ------------------- *)
\* C35: only network failures of the status query are retried.  A response
\* with a status other than 200 is raised at its first occurrence: no backoff
\* sleep, no change of the retry counter and no further query follow it.  A
\* missing API key is raised by the first call of check_video_status, before
\* any request and any sleep.
C35_OnlyNetworkFailuresRetried ==
    /\ [][Answered("http_error") =>
             /\ pc' = "raised"
             /\ raised'.msg = "HeyGen status check error"
             /\ retry_count' = retry_count
             /\ backoff_sleeps' = backoff_sleeps
             /\ poll_sleeps' = poll_sleeps]_vars
    /\ [](\A i \in DOMAIN history :
             history[i].class = "http_error" =>
                 (i = Len(history) /\ queries = i /\ pc = "raised"))
    /\ [](backoff_sleeps = NetworkFailureCount
             - (IF pc = "raised" /\ raised.type \in NetworkFailures THEN 1 ELSE 0))
    /\ [](~HEYGEN_API_KEY =>
             /\ queries = 0
             /\ history = <<>>
             /\ poll_sleeps = 0
             /\ backoff_sleeps = 0
             /\ pc \in {"wait_start", "loop", "raised"}
             /\ pc = "raised" => raised.type = "ValueError")

\* a status query answered with a non-200 response after a retried network
\* failure: the call has ended with the status check error
C35_Witness ==
    /\ pc = "raised"
    /\ raised.msg = "HeyGen status check error"
    /\ Len(history) = 2
    /\ history[1].class = "network"
    /\ history[2].class = "http_error"
    /\ retry_count = 1
    /\ backoff_sleeps = 1

(* ------------------ claims on where the timeout is checked -------------- *)
\* C36: the timeout is checked only at the top of the loop, before a status
\* query is sent, and also between the retries of a network failure.  Every
\* query is sent at elapsed <= max_wait, and one that returns 'completed' is
\* accepted whatever the elapsed time is when the answer arrives.  A
\* TimeoutError raised while the retry counter is 1 or 2 ends the call: the
\* retries that were left are not made.
C36_TimeoutOnlyBeforeQuery ==
    /\ [](\A i \in DOMAIN history : history[i].issued <= max_wait)
    /\ [][Answered("completed") => (pc' = "download" /\ raised' = raised)]_vars
    /\ [][(pc = "loop" /\ now - wfv_start > max_wait) =>
             (pc' = "raised" /\ raised'.type = "TimeoutError" /\ queries' = queries
              /\ retry_count' = retry_count)]_vars
    /\ [][(raised' # raised /\ raised'.type = "TimeoutError") => pc = "loop"]_vars
    /\ []((pc = "raised" /\ raised.type = "TimeoutError" /\ retry_count \in {1, 2}) =>
             /\ TrailingFailures(history) = retry_count
             /\ queries = Len(history)
             /\ backoff_sleeps >= retry_count)

\* a query sent at elapsed <= max_wait came back 'completed' after max_wait
\* had passed, and wait_for_video returned it
C36_Witness ==
    /\ pc = "download"
    /\ LastQuery.class = "completed"
    /\ LastQuery.issued <= max_wait
    /\ LastQuery.arrived > max_wait

\* a TimeoutError raised between two retries, the counter at rc
TimeoutWhileRetrying(rc) ==
    /\ pc = "raised"
    /\ raised.type = "TimeoutError"
    /\ retry_count = rc

(* ------------------- claims on the outputs of Phase 1 ------------------- *)
\* the synthesis call for variant v got a 200 answer
Synthesised(v) ==
    \E i \in DOMAIN requests : requests[i].option = v /\ requests[i].status_code = 200

\* C37: Phase 1 writes to the output folder only after both synthesis calls
\* succeeded: the output files are written by the copy step alone, which is
\* reached only with both artifacts there, and a run in which the synthesis
\* of Option A or of Option B failed has written no output file.  Option B is
\* attempted only after Option A succeeded, and when Option B fails the
\* artifact of Option A stays where it was written: no file is ever removed.
C37_OutputsOnlyAfterBoth ==
    /\ [][out_files' # out_files => pc = "p1_copy"]_vars
    /\ [](pc \in {"p1_copy", "p1_returned"} =>
             (Synthesised("OptionA") /\ Synthesised("OptionB")
              /\ {OptionPath("OptionA"), OptionPath("OptionB")} \subseteq tmp_files))
    /\ [](out_files # {} => (pc = "p1_returned" /\ raised = NoException))
    /\ []((pc = "raised" /\ ~(Synthesised("OptionA") /\ Synthesised("OptionB"))) =>
             out_files = {})
    /\ [](tts_option = "OptionB" =>
             (Synthesised("OptionA") /\ OptionPath("OptionA") \in tmp_files))
    /\ [][tmp_files \subseteq tmp_files']_vars

\* the synthesis of Option B was rejected after Option A had been written:
\* the artifact of Option A is there and the output folder is untouched
C37_Witness ==
    /\ pc = "raised"
    /\ Synthesised("OptionA")
    /\ Len(RequestsOf("OptionB")) >= 1
    /\ ~Synthesised("OptionB")
    /\ tmp_files = {OptionPath("OptionA")}
    /\ out_files = {}

(* -------------------- claims on the cloud block's chain ----------------- *)
\* the position of a step in the steps of the invocation, 0 if it was not
\* attempted
StepIndex(step) ==
    IF Attempted(step) THEN CHOOSE i \in DOMAIN steps : steps[i] = step ELSE 0

\* a step in which the publication step given is attempted
Attempts(step) == Len(steps') = Len(steps) + 1 /\ steps'[Len(steps')] = step

\* a step in which a step of the cloud block fails
CloudStepFails == \E s \in CloudSteps : s \in pub_failed' /\ s \notin pub_failed

\* C38: the cloud block is a chain, storage upload then log append then
\* notification.  The log append is attempted only with the drive link
\* recorded, the notification only with the drive link and the sheet link
\* recorded, and a failing step ends the block: the steps after it are not
\* attempted and the links recorded so far are kept.
C38_CloudChain ==
    /\ [][Attempts("log_video_generation") =>
             (Succeeded("upload_to_drive") /\ result.drive_link = DriveLink)]_vars
    /\ [][Attempts("send_video_notification") =>
             /\ Succeeded("upload_to_drive")
             /\ Succeeded("log_video_generation")
             /\ result.drive_link = DriveLink
             /\ result.sheet_link = SheetLink]_vars
    /\ [](Attempted("send_video_notification") =>
             /\ 0 < StepIndex("upload_to_drive")
             /\ StepIndex("upload_to_drive") < StepIndex("log_video_generation")
             /\ StepIndex("log_video_generation") < StepIndex("send_video_notification")
             /\ result.drive_link = DriveLink
             /\ result.sheet_link = SheetLink)
    /\ [][CloudStepFails =>
             /\ pc' \notin {"drive", "sheets", "email"}
             /\ result' = result]_vars
    /\ [][(pub_failed \cap CloudSteps # {} /\ invocations' = invocations) =>
             /\ \A s \in CloudSteps : ~Attempts(s)
             /\ result'.drive_link = result.drive_link
             /\ result'.sheet_link = result.sheet_link]_vars

\* the notification failed after both links were recorded: the invocation
\* returned with both links and the failure on record
C38_Witness ==
    /\ pc = "returned"
    /\ "send_video_notification" \in pub_failed
    /\ result.drive_link = DriveLink
    /\ result.sheet_link = SheetLink
    /\ StepIndex("send_video_notification") = StepIndex("log_video_generation") + 1

(* ------------------ claims on the retry count of the upload ------------- *)
\* C39: the retry counter of upload_video is never reset: it is left as it is
\* by an accepted chunk and never decreases during the call, so it counts
\* every retriable failure of the call, consecutive or not, the limit of
\* MAX_RETRIES applies to that total, and the backoff delays 2, 4, 8, ...
\* never shrink.
C39_RetryCountNeverReset ==
    /\ [][yt_retry_count' >= yt_retry_count]_vars
    /\ [][(yt_attempts' = yt_attempts + 1 /\ yt_last'.kind = "accepted") =>
             yt_retry_count' = yt_retry_count]_vars
    /\ [](yt_retry_count <= MAX_RETRIES + 1)
    /\ [](Len(yt_sleeps) <= MAX_RETRIES)
    /\ [](yt_retry_count = Len(yt_sleeps)
             + (IF yt_pc = "raised" /\ yt_raised.msg = "Maximum retries exceeded" THEN 1 ELSE 0))
    /\ [](\A i \in DOMAIN yt_sleeps : yt_sleeps[i] = 2 ^ i)

\* a chunk was accepted after two retried failures and the counter still
\* stands at 2
C39_Witness ==
    /\ yt_pc = "loop"
    /\ yt_last.kind = "accepted"
    /\ yt_retry_count = 2
    /\ yt_sleeps = <<2, 4>>

(* ------------------------ the web front-end (app.py) -------------------- *)
\* Every action is one run of the script main(), started by the use of a
\* widget or by st.rerun(); the session state and the widget values outlive
\* the run.  The pipeline tools the page calls either return or raise.
Unreadable == "<unreadable>"

\* the files a user can put in the uploader: the stem of the name and what
\* read_script_file makes of the content
UploadedFiles == {[stem |-> s, text |-> t] : s \in {"intro", "demo"},
                                            t \in {"", "words", Unreadable}}

Phases == {"upload", "generating_audio", "audio_generated", "generating_video",
           "video_generated"}

\* OUTPUT_DIR / f"{script_name}_audio_OptionA.mp3" and the same for Option B
AudioOutput(name, v) ==
    CASE name = "intro" /\ v = "OptionA" -> "output/intro_audio_OptionA.mp3"
      [] name = "intro" /\ v = "OptionB" -> "output/intro_audio_OptionB.mp3"
      [] name = "demo" /\ v = "OptionA" -> "output/demo_audio_OptionA.mp3"
      [] name = "demo" /\ v = "OptionB" -> "output/demo_audio_OptionB.mp3"

\* OUTPUT_DIR / f"{script_name}_video.mp4", which wait_and_download returns
VideoOutput(name) ==
    IF name = "intro" THEN "output/intro_video.mp4" ELSE "output/demo_video.mp4"

\* variant: every failure sends the page back to the upload
OnGenerationError_BackToUpload(ph) == "upload"

\* except Exception as e: st.session_state.phase = 'upload' in the audio
\* generation, 'audio_generated' in the video generation
OnGenerationError(ph) == IF ph = "generating_audio" THEN "upload" ELSE "audio_generated"

\* check_password() returned True
PageOpen == ~APP_PASSWORD \/ authenticated

appFrame == <<phase2Vars, nameVars, tagVars, phase1Vars, createVars, ytVars, cliVars,
              sheetVars>>

InitApp ==
    /\ pc = "idle"
    /\ Phase2Idle
    /\ NamesIdle
    /\ TagsIdle
    /\ Phase1Idle
    /\ CreateIdle
    /\ UploadIdle
    /\ CliIdle
    /\ SheetIdle
    /\ APP_PASSWORD \in BOOLEAN
    /\ authenticated = FALSE
    /\ SessionFresh
    /\ uploaded_file = NoFile
    /\ page_error = "none"

\* check_password: a password was typed; the right one sets authenticated and
\* reruns, a wrong one shows an error
Login ==
    /\ APP_PASSWORD
    /\ ~authenticated
    /\ \E right \in BOOLEAN :
          /\ authenticated' = right
          /\ page_error' = IF right THEN "none" ELSE "password"
    /\ UNCHANGED <<APP_PASSWORD, phase, session_script_text, session_script_name,
                   audio_a_path, audio_b_path, selected_audio, video_path, uploaded_file>>
    /\ UNCHANGED appFrame

\* the upload section of a run in phase 'upload', the uploader holding f and
\* the 'Generate Audio Options' button clicked or not
UploadSection(f, clicked) ==
    IF f = NoFile
       THEN /\ page_error' = "none"
            /\ UNCHANGED <<phase, session_script_text, session_script_name>>
    ELSE IF f.text = Unreadable
       THEN /\ page_error' = "read"
            /\ UNCHANGED <<phase, session_script_text, session_script_name>>
    ELSE /\ session_script_text' = f.text
         /\ session_script_name' = f.stem
         /\ phase' = IF clicked THEN "generating_audio" ELSE phase
         /\ page_error' = "none"

\* a file is put in the uploader, or taken out of it
ChooseFile ==
    /\ PageOpen
    /\ phase = "upload"
    /\ \E f \in UploadedFiles \cup {NoFile} :
          /\ uploaded_file' = f
          /\ UploadSection(f, FALSE)
    /\ UNCHANGED <<APP_PASSWORD, authenticated, audio_a_path, audio_b_path,
                   selected_audio, video_path>>
    /\ UNCHANGED appFrame

\* 'Generate Audio Options', which is on the page when the file was read
ClickGenerateAudio ==
    /\ PageOpen
    /\ phase = "upload"
    /\ uploaded_file # NoFile
    /\ uploaded_file.text # Unreadable
    /\ UploadSection(uploaded_file, TRUE)
    /\ UNCHANGED <<APP_PASSWORD, authenticated, audio_a_path, audio_b_path,
                   selected_audio, video_path, uploaded_file>>
    /\ UNCHANGED appFrame

\* the run in phase 'generating_audio': text_to_speech_dual, the two copies,
\* the two paths, then the phase; any exception shows an error
GenerateAudio ==
    /\ PageOpen
    /\ phase = "generating_audio"
    /\ \E ok \in BOOLEAN :
          IF ok THEN /\ audio_a_path' = AudioOutput(session_script_name, "OptionA")
                     /\ audio_b_path' = AudioOutput(session_script_name, "OptionB")
                     /\ phase' = "audio_generated"
                     /\ page_error' = "none"
                ELSE /\ phase' = OnGenerationError(phase)
                     /\ page_error' = "audio"
                     /\ UNCHANGED <<audio_a_path, audio_b_path>>
    /\ uploaded_file' = NoFile
    /\ UNCHANGED <<APP_PASSWORD, authenticated, session_script_text, session_script_name,
                   selected_audio, video_path>>
    /\ UNCHANGED appFrame

\* 'Select Option A' or 'Select Option B'
SelectAudio ==
    /\ PageOpen
    /\ phase = "audio_generated"
    /\ \E v \in Variants :
          selected_audio' = IF v = "OptionA" THEN audio_a_path ELSE audio_b_path
    /\ page_error' = "none"
    /\ UNCHANGED <<APP_PASSWORD, authenticated, phase, session_script_text,
                   session_script_name, audio_a_path, audio_b_path, video_path,
                   uploaded_file>>
    /\ UNCHANGED appFrame

\* 'Generate Video', which is on the page when an audio is selected
ClickGenerateVideo ==
    /\ PageOpen
    /\ phase = "audio_generated"
    /\ Truthy(selected_audio)
    /\ phase' = "generating_video"
    /\ page_error' = "none"
    /\ UNCHANGED <<APP_PASSWORD, authenticated, session_script_text, session_script_name,
                   audio_a_path, audio_b_path, selected_audio, video_path, uploaded_file>>
    /\ UNCHANGED appFrame

\* the run in phase 'generating_video': upload_audio, create_video,
\* wait_and_download, the video path, then the phase; any exception shows an
\* error
GenerateVideo ==
    /\ PageOpen
    /\ phase = "generating_video"
    /\ \E ok \in BOOLEAN :
          IF ok THEN /\ video_path' = VideoOutput(session_script_name)
                     /\ phase' = "video_generated"
                     /\ page_error' = "none"
                ELSE /\ phase' = OnGenerationError(phase)
                     /\ page_error' = "video"
                     /\ UNCHANGED video_path
    /\ UNCHANGED <<APP_PASSWORD, authenticated, session_script_text, session_script_name,
                   audio_a_path, audio_b_path, selected_audio, uploaded_file>>
    /\ UNCHANGED appFrame

\* 'Start Over': the seven keys are deleted, st.rerun(), and the next run
\* initialises them
StartOver ==
    /\ PageOpen
    /\ phase # "upload"
    /\ phase' = "upload"
    /\ session_script_text' = None
    /\ session_script_name' = None
    /\ audio_a_path' = None
    /\ audio_b_path' = None
    /\ selected_audio' = None
    /\ video_path' = None
    /\ uploaded_file' = NoFile
    /\ page_error' = "none"
    /\ UNCHANGED <<APP_PASSWORD, authenticated>>
    /\ UNCHANGED appFrame

NextApp ==
    \/ Login
    \/ ChooseFile
    \/ ClickGenerateAudio
    \/ GenerateAudio
    \/ SelectAudio
    \/ ClickGenerateVideo
    \/ GenerateVideo
    \/ StartOver

AppSpec == InitApp /\ [][NextApp]_vars

(* ------------------------ claims on the front-end ----------------------- *)
ForwardMoves == {<<"upload", "generating_audio">>, <<"generating_audio", "audio_generated">>,
                 <<"audio_generated", "generating_video">>,
                 <<"generating_video", "video_generated">>}

\* C40: the phase of the front-end only moves forward along upload,
\* generating_audio, audio_generated, generating_video, video_generated, or
\* back by a failure (generating_audio to upload; generating_video to
\* audio_generated, the audio paths and the selection kept), or to upload with
\* everything reset by Start Over.  In every state generating_video implies
\* that an audio is selected, the three phases from audio_generated on imply
\* that both audio paths are set, and video_generated implies that the video
\* path is set.
C40_PhaseMachine ==
    /\ [][phase' # phase =>
             \/ <<phase, phase'>> \in ForwardMoves
             \/ phase = "generating_audio" /\ phase' = "upload"
             \/ /\ phase = "generating_video"
                /\ phase' = "audio_generated"
                /\ audio_a_path' = audio_a_path
                /\ audio_b_path' = audio_b_path
                /\ selected_audio' = selected_audio
             \/ SessionFresh']_vars
    /\ [](phase \in Phases)
    /\ [](phase = "generating_video" =>
             (Truthy(selected_audio) /\ selected_audio \in {audio_a_path, audio_b_path}))
    /\ [](phase \in {"audio_generated", "generating_video", "video_generated"} =>
             (Truthy(audio_a_path) /\ Truthy(audio_b_path) /\ audio_a_path # audio_b_path))
    /\ [](phase = "video_generated" => Truthy(video_path))

\* the video generation failed with Option B selected: the page is back at
\* the selection, the paths and the selection as they were
C40_Witness ==
    /\ phase = "audio_generated"
    /\ page_error = "video"
    /\ Truthy(audio_a_path)
    /\ selected_audio = audio_b_path
    /\ video_path = None
=============================================================================
